---- MODULE Spec2Model ----
(***************************************************************************)
(* A model of powerd++, the CPU frequency daemon (src/src/powerd++.cpp),   *)
(* with the sysctl wrappers it uses (sys/sysctl.hpp).                      *)
(*                                                                         *)
(* The main thread is a sequential program; pc is its position.  The       *)
(* kernel is the environment: it advances the cp_times tick counters,      *)
(* answers or refuses sysctl reads and writes, stores the frequency that   *)
(* is written, and delivers signals at any moment.                         *)
(***************************************************************************)
EXTENDS Integers, Sequences, FiniteSets, TLC

(***************************************************************************)
(* Bounds of the model.                                                    *)
(***************************************************************************)
\* cptime_t has CptimeBits bits; all tick arithmetic is modulo 2^CptimeBits
CptimeBits == 16
\* the largest number of main loop iterations that are started with no
\* signal pending
MaxTicks == 2
\* the largest sample count (g.samples) a run is configured with
MaxSamples == 3
\* the number of ticks the kernel adds to one state of one core between two
\* samples (the unit of the tick profiles)
TickUnit == 2

(***************************************************************************)
(* Program constants.                                                      *)
(***************************************************************************)
CPUSTATES == 5
CP_IDLE == 4
FREQ_DEFAULT_MIN == 0
FREQ_DEFAULT_MAX == 1000000
FREQ_UNSET == 1000001
ADP == 512
HADP == 384
BATTERY == 0
ONLINE == 1
UNKNOWN == 2
SIGHUP == 1
SIGINT == 2
SIGTERM == 15
\* the initial value of g.samples
DefaultSamples == 5

VARIABLES
    pc,            \* position of the main thread
    exc,           \* the exception in flight, "none" if none
    exitcode,      \* how the process ended, "running" until then
    signal,        \* g.signal
    argv,          \* the command line of the process, << >> until main() has read it
    foreground,    \* g.foreground
    ncpu,          \* g.ncpu
    samples,       \* g.samples
    sample,        \* g.sample
    cp_times,      \* g.cp_times, the ring buffer: slot index -> state -> ticks
    cores,         \* g.cores: core -> [controller, load, min, max]
    acstates,      \* g.acstates: line state -> [freq_min, freq_max, target_load, target_freq]
    acline_ctl,    \* g.acline_ctl: TRUE iff the MIB was resolved by init()
    i_loop,        \* the loop variables i (reset_cp_times) and corei
    acline,        \* update_freq(): the local acline
    acstate,       \* update_freq(): the policy record acstate refers to
    sighup,        \* the disposition of SIGHUP: "SIG_DFL", "signal_recv", "SIG_IGN"
    pidfile,       \* the Pidfile of run_daemon(): "none", "open", "written", "removed"
    fguard,        \* the FreqGuard of run_daemon(): "none", "alive", "destroyed"
    kern_mib,      \* kernel: which MIBs exist, and the dev.cpu.N.freq_levels
    kern_cp_times, \* kernel: kern.cp_times, core -> state -> ticks
    dev_cpu_freq,  \* kernel: dev.cpu.N.freq of every core
    ticks,         \* number of main loop iterations started
    late_ticks,    \* number of main loop iterations started with g.signal nonzero
    raw_load,      \* observation: the loads update_cp_times() computed in this tick
    acline_read,   \* observation: what the last read of hw.acpi.acline returned
    decided,       \* observation: core -> the decision made for it in this tick
    freq_reads,    \* observation: core -> reads of dev.cpu.N.freq in this tick
    freq_writes,   \* observation: core -> writes of dev.cpu.N.freq in this tick
    restore_log,   \* observation: the writes ~FreqGuard() attempted, in order
    fault,         \* observation: what made the main thread throw, or killed the process
    delivered      \* observation: the signal delivered last (0 if none was), and g.signal before it

vars == <<pc, exc, exitcode, signal, argv, foreground, ncpu, samples, sample,
          cp_times, cores, acstates, acline_ctl, i_loop, acline, acstate, sighup,
          pidfile, fguard, kern_mib, kern_cp_times, dev_cpu_freq, ticks, late_ticks,
          raw_load, acline_read, decided, freq_reads, freq_writes,
          restore_log, fault, delivered>>

(***************************************************************************)
(* Arithmetic helpers.                                                     *)
(***************************************************************************)
Min(a, b) == IF a <= b THEN a ELSE b
Max(a, b) == IF a >= b THEN a ELSE b

RECURSIVE Pow2(_)
Pow2(n) == IF n = 0 THEN 1 ELSE 2 * Pow2(n - 1)

\* the number of values of cptime_t
CptimeMod == Pow2(CptimeBits)

\* unsigned arithmetic of cptime_t
CpAdd(a, b) == (a + b) % CptimeMod
CpSub(a, b) == (a - b + CptimeMod) % CptimeMod
CpShl9(a) == (a * 512) % CptimeMod
CpShl10(a) == (a * 1024) % CptimeMod

States == 0 .. (CPUSTATES - 1)
Cores == 0 .. (ncpu - 1)

(***************************************************************************)
(* Exceptions.  exc is "none", the exit code of an errors::Exception       *)
(* thrown by fail(), or the name of another thrown type.  A throw unwinds  *)
(* the objects of run_daemon() that are alive, newest first, and then      *)
(* reaches the handlers of main().                                         *)
(***************************************************************************)
\* a throw that ends the process without unwinding
UnwindPcNone(guard, pid) == "catch"

UnwindPc(guard, pid) ==
    IF guard = "alive" THEN "~FreqGuard"
    ELSE IF pid \in {"open", "written"} THEN "~Pidfile"
    ELSE "catch"

\* sysctl_fail(): fail(Exit::ESYSCTL, ...)
sysctl_fail == "ESYSCTL"

(***************************************************************************)
(* read_args(): the command line is a sequence of options, each with its   *)
(* parsed argument.                                                        *)
(***************************************************************************)
\* A command line argument is the number strtod() finds at its start, and
\* the rest of the string: num is "none" (no number, strtod() returns 0),
\* "fin" (a number of milli thousandths) or "nan"; ub is the integer the
\* conversion of the NaN, which is undefined, yields in this run
Word(w) == [num |-> "none", milli |-> 0, rest |-> w, ub |-> 0]
Milli(m, unit) == [num |-> "fin", milli |-> m, rest |-> unit, ub |-> 0]
Number(n) == Milli(1000 * n, "")
NaN(unit, ub) == [num |-> "nan", milli |-> 0, rest |-> unit, ub |-> ub]

\* std::tolower() of the words the command lines hold
tolower(w) ==
    IF w = "ADP" THEN "adp"
    ELSE IF w = "Max" THEN "max"
    ELSE IF w = "MHz" THEN "mhz"
    ELSE IF w = "GHZ" THEN "ghz"
    ELSE w

\* Value::Value(): the unit whose UnitStr is the rest of the string, without
\* regard to case
UnitOf(rest) ==
    LET u == tolower(rest) IN
    IF u = "" THEN "SCALAR"
    ELSE IF u = "%" THEN "PERCENT"
    ELSE IF u = "s" THEN "SECOND"
    ELSE IF u = "ms" THEN "MILLISECOND"
    ELSE IF u = "hz" THEN "HZ"
    ELSE IF u = "khz" THEN "KHZ"
    ELSE IF u = "mhz" THEN "MHZ"
    ELSE IF u = "ghz" THEN "GHZ"
    ELSE IF u = "thz" THEN "THZ"
    ELSE "UNKNOWN"

\* !str || !*str
Missing(str) == str.num = "none" /\ str.rest = ""

\* value > bound and value < bound of a double, both false for a NaN; the
\* magnitudes are in thousandths
Greater(str, bound) == str.num # "nan" /\ str.milli > bound
Less(str, bound) == str.num # "nan" /\ str.milli < bound

\* the result of parsing an argument: the value, or the exit code fail() throws
Parsed(v) == [err |-> "none", val |-> v]
Rejected(e) == [err |-> e, val |-> 0]

\* the conversion of the double of scaled / per to an integer, by
\* "value < 1 ? 1 : value"
AtLeastOne(str, scaled, per) ==
    IF str.num = "nan" THEN str.ub
    ELSE IF scaled < per THEN 1
    ELSE scaled \div per

\* clas::load()
clas_load(str) ==
    IF Missing(str) THEN Rejected("ELOAD")
    ELSE IF UnitOf(str.rest) = "SCALAR" THEN
        IF Greater(str, 1000) \/ Less(str, 0) THEN Rejected("EOUTOFRANGE")
        ELSE Parsed(AtLeastOne(str, str.milli * 1024, 1000))
    ELSE IF UnitOf(str.rest) = "PERCENT" THEN
        IF Greater(str, 100000) \/ Less(str, 0) THEN Rejected("EOUTOFRANGE")
        ELSE Parsed(AtLeastOne(str, str.milli * 1024, 100000))
    ELSE Rejected("ELOAD")

\* clas::freq(): the magnitude in MHz, as a number q of thousandths and a
\* rest r that is lost in q
FreqMhz(str) ==
    LET unit == UnitOf(str.rest) IN
    IF unit = "HZ" THEN [q |-> str.milli \div 1000000, r |-> str.milli % 1000000]
    ELSE IF unit = "KHZ" THEN [q |-> str.milli \div 1000, r |-> str.milli % 1000]
    ELSE IF unit = "GHZ" THEN [q |-> str.milli * 1000, r |-> 0]
    ELSE IF unit = "THZ" THEN [q |-> str.milli * 1000000, r |-> 0]
    ELSE [q |-> str.milli, r |-> 0]

\* clas::freq()
clas_freq_of(str) ==
    LET mhz == FreqMhz(str) IN
    IF Missing(str) THEN Rejected("EFREQ")
    ELSE IF UnitOf(str.rest) \notin {"HZ", "KHZ", "SCALAR", "MHZ", "GHZ", "THZ"}
    THEN Rejected("EFREQ")
    ELSE IF str.num = "nan" THEN Parsed(str.ub)
    ELSE IF mhz.q > 1000000000 \/ (mhz.q = 1000000000 /\ mhz.r > 0) \/ mhz.q < 0
    THEN Rejected("EOUTOFRANGE")
    ELSE Parsed(mhz.q \div 1000)

\* the predefined modes of set_mode(), by their lower case names
Predefined ==
    [minimum |-> [target_load |-> 0, target_freq |-> FREQ_DEFAULT_MIN],
     min |-> [target_load |-> 0, target_freq |-> FREQ_DEFAULT_MIN],
     maximum |-> [target_load |-> 0, target_freq |-> FREQ_DEFAULT_MAX],
     max |-> [target_load |-> 0, target_freq |-> FREQ_DEFAULT_MAX],
     adaptive |-> [target_load |-> ADP, target_freq |-> 0],
     adp |-> [target_load |-> ADP, target_freq |-> 0],
     hiadaptive |-> [target_load |-> HADP, target_freq |-> 0],
     hadp |-> [target_load |-> HADP, target_freq |-> 0]]

\* whether the mode string is the name of a predefined mode
IsPredefined(str) == str.num = "none" /\ tolower(str.rest) \in DOMAIN Predefined

\* the settings g holds: the part read_args() changes, and the exit code of
\* the Exception parsing has thrown, "none" if none
Settings(st, fg, n) == [acstates |-> st, foreground |-> fg, samples |-> n, err |-> "none"]

\* a set_mode() that tries the frequency before the load
set_mode_freq_first(g, line, str) ==
    LET cleared == [g EXCEPT !.acstates[line].target_load = 0,
                             !.acstates[line].target_freq = 0]
        l == clas_load(str)
        f == clas_freq_of(str)
    IN IF IsPredefined(str)
       THEN [g EXCEPT !.acstates[line].target_load = Predefined[tolower(str.rest)].target_load,
                      !.acstates[line].target_freq = Predefined[tolower(str.rest)].target_freq]
       ELSE IF f.err = "none" THEN [cleared EXCEPT !.acstates[line].target_freq = f.val]
       ELSE IF f.err = "EOUTOFRANGE" THEN [cleared EXCEPT !.err = "EOUTOFRANGE"]
       ELSE IF l.err = "none" THEN [cleared EXCEPT !.acstates[line].target_load = l.val]
       ELSE IF l.err = "EOUTOFRANGE" THEN [cleared EXCEPT !.err = "EOUTOFRANGE"]
       ELSE [cleared EXCEPT !.err = "EMODE"]

\* set_mode(): g after the mode str was set for the line state, or after the
\* Exception it throws
set_mode(g, line, str) ==
    LET cleared == [g EXCEPT !.acstates[line].target_load = 0,
                             !.acstates[line].target_freq = 0]
        l == clas_load(str)
        f == clas_freq_of(str)
    IN IF IsPredefined(str)
       THEN [g EXCEPT !.acstates[line].target_load = Predefined[tolower(str.rest)].target_load,
                      !.acstates[line].target_freq = Predefined[tolower(str.rest)].target_freq]
       ELSE IF l.err = "none" THEN [cleared EXCEPT !.acstates[line].target_load = l.val]
       ELSE IF l.err = "EOUTOFRANGE" THEN [cleared EXCEPT !.err = "EOUTOFRANGE"]
       ELSE IF f.err = "none" THEN [cleared EXCEPT !.acstates[line].target_freq = f.val]
       ELSE IF f.err = "EOUTOFRANGE" THEN [cleared EXCEPT !.err = "EOUTOFRANGE"]
       ELSE [cleared EXCEPT !.err = "EMODE"]

\* a clas::freq() that accepts one more MHz
clas_freq_wide(value) ==
    IF value > 1000001 \/ value < 0 THEN Rejected("EOUTOFRANGE") ELSE Parsed(value)

\* clas::freq() of a number of MHz without a unit
clas_freq(value) == clas_freq_of(Number(value))

\* clas::samples() of an integer
clas_samples(value) ==
    IF value < 1 \/ value > 1000 THEN Rejected("EOUTOFRANGE") ELSE Parsed(value)

\* g after an assignment of a parsed argument, or after fail()
Assign(g, parsed, assigned) == IF parsed.err # "none" THEN [g EXCEPT !.err = parsed.err] ELSE assigned

\* one case of the switch of read_args()
read_arg(g, o) ==
    IF o.opt = "FLAG_FOREGROUND" THEN [g EXCEPT !.foreground = TRUE]
    ELSE IF o.opt = "MODE_AC" THEN
        set_mode(g, ONLINE, o.arg)
    ELSE IF o.opt = "MODE_BATT" THEN
        set_mode(g, BATTERY, o.arg)
    ELSE IF o.opt = "MODE_UNKNOWN" THEN
        set_mode(g, UNKNOWN, o.arg)
    ELSE IF o.opt = "FREQ_MIN" THEN
        Assign(g, clas_freq(o.arg), [g EXCEPT !.acstates[UNKNOWN].freq_min = clas_freq(o.arg).val])
    ELSE IF o.opt = "FREQ_MAX" THEN
        Assign(g, clas_freq(o.arg), [g EXCEPT !.acstates[UNKNOWN].freq_max = clas_freq(o.arg).val])
    ELSE IF o.opt = "FREQ_MIN_AC" THEN
        Assign(g, clas_freq(o.arg), [g EXCEPT !.acstates[ONLINE].freq_min = clas_freq(o.arg).val])
    ELSE IF o.opt = "FREQ_MAX_AC" THEN
        Assign(g, clas_freq(o.arg), [g EXCEPT !.acstates[ONLINE].freq_max = clas_freq(o.arg).val])
    ELSE IF o.opt = "FREQ_MIN_BATT" THEN
        Assign(g, clas_freq(o.arg), [g EXCEPT !.acstates[BATTERY].freq_min = clas_freq(o.arg).val])
    ELSE IF o.opt = "FREQ_MAX_BATT" THEN
        Assign(g, clas_freq(o.arg), [g EXCEPT !.acstates[BATTERY].freq_max = clas_freq(o.arg).val])
    ELSE IF o.opt = "CNT_SAMPLES" THEN
        Assign(g, clas_samples(o.arg), [g EXCEPT !.samples = clas_samples(o.arg).val])
    ELSE g

RECURSIVE read_args_loop(_, _)
read_args_loop(g, args) ==
    IF args = <<>> \/ g.err # "none" THEN g
    ELSE read_args_loop(read_arg(g, Head(args)), Tail(args))

\* the initial value of g.acstates
DefaultAcstates ==
    (BATTERY :> [freq_min |-> FREQ_UNSET, freq_max |-> FREQ_UNSET,
                 target_load |-> ADP, target_freq |-> 0]) @@
    (ONLINE :> [freq_min |-> FREQ_UNSET, freq_max |-> FREQ_UNSET,
                target_load |-> HADP, target_freq |-> 0]) @@
    (UNKNOWN :> [freq_min |-> FREQ_DEFAULT_MIN, freq_max |-> FREQ_DEFAULT_MAX,
                 target_load |-> HADP, target_freq |-> 0])

\* the initial value of one element of g.cores
DefaultCore ==
    [controller |-> -1, load |-> 0, min |-> FREQ_DEFAULT_MIN, max |-> FREQ_DEFAULT_MAX]

(***************************************************************************)
(* init()                                                                  *)
(***************************************************************************)
\* the controller init() assigns to core c; mib[c] is what resolving
\* dev.cpu.c.freq gives: "ok", "ENOENT" or another errno
\* an init() that makes core 0 the controller of every follower
ControllerOfFirst(mib, c) ==
    IF mib[c] = "ok" THEN c ELSE IF mib[0] = "ok" THEN 0 ELSE -1

RECURSIVE ControllerOf(_, _)
ControllerOf(mib, c) ==
    IF mib[c] = "ok" THEN c
    ELSE IF c = 0 THEN -1
    ELSE ControllerOf(mib, c - 1)

\* how the controller loop of init() ends: "none", or the exit code it fails with
InitControllersError(mib) ==
    LET bad == {c \in DOMAIN mib :
                   \/ mib[c] \notin {"ok", "ENOENT"}
                   \/ mib[c] = "ENOENT" /\ ControllerOf(mib, c) < 0}
        first == CHOOSE c \in bad : \A d \in bad : c <= d
    IN IF bad = {} THEN "none"
       ELSE IF mib[first] = "ENOENT" THEN "ENOFREQ"
       ELSE sysctl_fail

\* the errno of the failure the controller loop of init() ends with
InitControllersErrno(mib) ==
    LET bad == {c \in DOMAIN mib : mib[c] # "ok" /\ (mib[c] # "ENOENT" \/ ControllerOf(mib, c) < 0)}
    IN IF bad = {} THEN "none" ELSE mib[CHOOSE c \in bad : \A d \in bad : c <= d]

\* the user frequency boundaries: unset ones are taken from the unknown state
InitAcstates(st) ==
    [l \in DOMAIN st |->
        [st[l] EXCEPT
            !.freq_min = IF st[l].freq_min = FREQ_UNSET
                         THEN st[UNKNOWN].freq_min ELSE st[l].freq_min,
            !.freq_max = IF st[l].freq_max = FREQ_UNSET
                         THEN st[UNKNOWN].freq_max ELSE st[l].freq_max]]

\* the characters of a dev.cpu.N.freq_levels string: a decimal number, the
\* characters '/' and ' ', and any other character
Num(n) == n
Slash == -1
Space == -2
Other == -3

\* the character at position p of the string, "NUL" at its end
CharAt(str, p) ==
    IF p > Len(str) THEN "NUL"
    ELSE IF str[p] = Slash THEN "/"
    ELSE IF str[p] = Space THEN " "
    ELSE IF str[p] = Other THEN "x"
    ELSE "num"

\* strtol(): the position after the white space from p on
RECURSIVE SkipSpace(_, _)
SkipSpace(str, p) ==
    IF CharAt(str, p) = " " THEN SkipSpace(str, p + 1) ELSE p

\* strtol(pch, &pch, 10): the number after optional white space and the
\* position after it; 0 and the position p itself if there is no number
strtol(str, p) ==
    LET q == SkipSpace(str, p) IN
    IF CharAt(str, q) = "num"
    THEN [val |-> str[q], end |-> q + 1]
    ELSE [val |-> 0, end |-> p]

\* init(): the loop over the entries "freq/power" of the freq_levels string,
\* from position p on; it ends at the end of the string and at the first
\* entry that is not followed by '/' or by ' '
\* (the rest of the string is bound in a set, to be computed once)
RECURSIVE ParseLevels(_, _, _)
ParseLevels(str, p, core) ==
    IF CharAt(str, p) = "NUL" THEN core
    ELSE LET freq == strtol(str, p) IN
         IF CharAt(str, freq.end) # "/" THEN core
         ELSE LET seen == [core EXCEPT !.max = Max(@, freq.val),
                                       !.min = Min(@, freq.val)]
                  power == strtol(str, freq.end + 1)
              IN IF CharAt(str, power.end) # " " THEN seen
                 ELSE CHOOSE parsed \in
                          {ParseLevels(str, rest.p, rest.core) :
                              rest \in {[p |-> power.end + 1, core |-> seen]}} : TRUE

\* the element of g.cores init() builds for core c; levels[c].present is
\* FALSE if dev.cpu.c.freq_levels cannot be read, levels[c].str is its value
InitCore(mib, levels, c) ==
    LET ctl == ControllerOf(mib, c) IN
    IF ctl # c \/ ~levels[c].present
    THEN [DefaultCore EXCEPT !.controller = ctl]
    ELSE ParseLevels(levels[c].str, 1,
                     [DefaultCore EXCEPT !.controller = ctl,
                                         !.max = FREQ_DEFAULT_MIN,
                                         !.min = FREQ_DEFAULT_MAX])

\* init(): the cores whose assertion core.min <= core.max fails
InitAssertFails(mib, levels) ==
    {c \in DOMAIN mib : InitCore(mib, levels, c).min > InitCore(mib, levels, c).max}

\* the zero-initialised ring buffer
ZeroCpTimes(n) == [j \in 0 .. (n - 1) |-> [s \in States |-> 0]]


(***************************************************************************)
(* update_cp_times() and update_load_times()                               *)
(***************************************************************************)
\* all: the sum over the states of the ticks between two samples of a core
RECURSIVE AllTicks(_, _, _)
AllTicks(new, old, n) ==
    IF n = 0 THEN 0
    ELSE CpAdd(AllTicks(new, old, n - 1), CpSub(new[n - 1], old[n - 1]))

\* CoreLoad that takes a core whose counters stand still for fully loaded
CoreLoadStillIsBusy(new, old) ==
    LET all == AllTicks(new, old, CPUSTATES)
        idle == CpSub(new[CP_IDLE], old[CP_IDLE])
    IN IF all # 0 THEN CpShl10(CpSub(all, idle)) \div all ELSE 1024

\* CoreLoad with the operands of the idle difference exchanged
CoreLoadIdleSwapped(new, old) ==
    LET all == AllTicks(new, old, CPUSTATES)
        idle == CpSub(old[CP_IDLE], new[CP_IDLE])
    IN IF all # 0 THEN CpShl10(CpSub(all, idle)) \div all ELSE 0

\* the load of a core from its newest and its oldest sample
CoreLoad(new, old) ==
    LET all == AllTicks(new, old, CPUSTATES)
        idle == CpSub(new[CP_IDLE], old[CP_IDLE])
    IN IF all # 0 THEN CpShl10(CpSub(all, idle)) \div all ELSE 0

\* an update_cp_times() that compares the new sample with the one before it
OldSamplePrevious(cur, n) == (cur + n - 1) % n

\* the index of the slot update_cp_times() compares the new sample with
OldSample(cur, n) == (cur + 1) % n

\* the ring buffer after the kernel wrote its counters k to sample slot cur
ReadCpTimes(buf, cur, k) ==
    [j \in DOMAIN buf |->
        IF j \in (cur * ncpu) .. (cur * ncpu + ncpu - 1)
        THEN k[j - cur * ncpu] ELSE buf[j]]

\* an update_cp_times() that lowers no load: a core keeps the load it had
\* when its new one is below it
CpTimesLoadsKeepHigh(buf, cur) ==
    [c \in Cores |-> Max(cores[c].load,
                         CoreLoad(buf[cur * ncpu + c],
                                  buf[OldSample(cur, samples) * ncpu + c]))]

\* the loads update_cp_times() computes from the ring buffer
CpTimesLoads(buf, cur) ==
    [c \in Cores |-> CoreLoad(buf[cur * ncpu + c],
                              buf[OldSample(cur, samples) * ncpu + c])]

\* the load of controller c after the loop of update_load_times() ran over
\* the first n cores
RECURSIVE GroupLoad(_, _, _)
GroupLoad(cs, c, n) ==
    IF n = 0 THEN cs[c].load
    ELSE LET prev == GroupLoad(cs, c, n - 1) IN
         IF cs[n - 1].controller # n - 1 /\ cs[n - 1].controller = c
         THEN Max(prev, cs[n - 1].load) ELSE prev

\* update_load_times() that looks at the core after the controller only
update_load_times_next_only(cs) ==
    [c \in DOMAIN cs |->
        IF cs[c].controller = c
        THEN [cs[c] EXCEPT !.load = GroupLoad(cs, c, Min(c + 2, ncpu))] ELSE cs[c]]

\* g.cores after update_load_times() set the controllers' loads
update_load_times(cs) ==
    [c \in DOMAIN cs |->
        IF cs[c].controller = c
        THEN [cs[c] EXCEPT !.load = GroupLoad(cs, c, ncpu)] ELSE cs[c]]

(***************************************************************************)
(* update_freq()                                                           *)
(***************************************************************************)
\* Once that keeps the zero-initialised value if reading fails
OnceNoFallback(fallback, resolved, read) ==
    IF resolved /\ read.ok THEN read.val ELSE 0

\* sys::ctl::Once: the value read, or the fallback if reading fails; a
\* Sysctl that was never resolved cannot be read.  read.ok tells whether
\* the kernel answers, read.val is its answer
Once(fallback, resolved, read) ==
    IF resolved /\ read.ok THEN read.val ELSE fallback

\* the number of bits of mhz_t
MhzBits == 32

\* the number of values of half a mhz_t: numbers of up to twice the width of
\* mhz_t are computed in halves, [hi, lo] is hi * MhzHalf + lo
MhzHalf == Pow2(MhzBits \div 2)

\* the product of a mhz_t and a load of up to 15 bits
MhzMul(a, b) ==
    LET lo == (a % MhzHalf) * b
        hi == (a \div MhzHalf) * b + (lo \div MhzHalf)
    IN [hi |-> hi, lo |-> lo % MhzHalf]

\* a number converted to mhz_t
MhzOf(p) == [hi |-> p.hi % MhzHalf, lo |-> p.lo]

\* the quotient of a number and a target load of up to 15 bits
MhzDiv(p, t) ==
    [hi |-> p.hi \div t, lo |-> ((p.hi % t) * MhzHalf + p.lo) \div t]

\* the value of a mhz_t
MhzValue(p) == p.hi * MhzHalf + p.lo

\* update_freq(): oldfreq * core.load / acstate.target_load, computed in
\* the common type of mhz_t and cptime_t, which is mhz_t or wider, and
\* assigned to a mhz_t
MhzScale(oldfreq, core_load, target_load, wide) ==
    LET product == MhzMul(oldfreq, core_load) IN
    MhzValue(MhzOf(MhzDiv(IF wide THEN product ELSE MhzOf(product), target_load)))

\* the number of values of a mhz_t that is shifted left by 10 bits
MhzShifted == Pow2(MhzBits - 10)

\* update_freq(): an assertion about oldfreq that lets one more bit pass
OldFreqAssertedLoose(oldfreq) == oldfreq = oldfreq % (2 * MhzShifted)

\* update_freq(): the assertion oldfreq == ((oldfreq << 10) >> 10), the
\* shifts being those of mhz_t
OldFreqAsserted(oldfreq) == oldfreq = oldfreq % MhzShifted

\* update_freq(): whether the assertion about oldfreq is evaluated and fails
OldFreqAborts(st, oldfreq, ndebug) ==
    st.target_load # 0 /\ ~ndebug /\ ~OldFreqAsserted(oldfreq)

\* the widths of the product that make a difference: mhz_t (FALSE) or wider
ProductWidths(st, oldfreq, core_load) ==
    IF st.target_load # 0 /\ MhzMul(oldfreq, core_load).hi >= MhzHalf
    THEN BOOLEAN ELSE {FALSE}

\* the builds that make a difference: with assertions (FALSE) or with NDEBUG
Builds(st, oldfreq) ==
    IF st.target_load # 0 /\ ~OldFreqAsserted(oldfreq) THEN BOOLEAN ELSE {FALSE}

\* wantfreq that keeps the old clock in fixed frequency mode
WantFreqKeepsOld(st, oldfreq, core_load, wide) ==
    IF st.target_load # 0
    THEN MhzScale(oldfreq, core_load, st.target_load, wide)
    ELSE oldfreq

\* wantfreq
WantFreq(st, oldfreq, core_load, wide) ==
    IF st.target_load # 0
    THEN MhzScale(oldfreq, core_load, st.target_load, wide)
    ELSE st.target_freq

\* a max that is the hardware's alone
LimitMaxOfCore(core, st) == core.max

\* the limits min and max that are applied to wantfreq
LimitMax(core, st) == Min(core.max, st.freq_max)
LimitMin(core, st) == Max(core.min, st.freq_min)

\* newfreq with the maximum applied before the minimum
NewFreqMinLast(core, st, wantfreq) ==
    Max(Min(wantfreq, LimitMax(core, st)), LimitMin(core, st))

\* newfreq
NewFreq(core, st, wantfreq) ==
    Min(Max(wantfreq, LimitMin(core, st)), LimitMax(core, st))

\* update_freq() that writes newfreq in every case
WritesFreqAlways(oldfreq, newfreq) == TRUE

\* whether update_freq() writes newfreq
WritesFreq(oldfreq, newfreq) == oldfreq # newfreq

\* The next core at or after c that controls its own clock, ncpu if none
RECURSIVE NextController(_, _)
NextController(cs, c) ==
    IF c >= ncpu THEN ncpu
    ELSE IF cs[c].controller = c THEN c
    ELSE NextController(cs, c + 1)

Controllers == {c \in Cores : cores[c].controller = c}

NoAccess == [c \in Cores |-> 0]


(***************************************************************************)
(* The actions of the main thread.  What the kernel does in a step is an   *)
(* input of the action, drawn from a set the specification names.          *)
(***************************************************************************)
kernVars == <<kern_mib, kern_cp_times, dev_cpu_freq>>
confVars == <<argv, foreground, ncpu, samples, acstates, acline_ctl>>
bufVars == <<sample, cp_times, cores>>
tickVars == <<acline, acstate, ticks, late_ticks>>
obsVars == <<raw_load, acline_read, decided, freq_reads, freq_writes, restore_log>>
objVars == <<sighup, pidfile, fguard>>

\* nothing was thrown
NoFault == [at |-> "none", op |-> "none", errno |-> "none"]

\* throw e from the position the main thread is at, after operation op
\* failed with errno
Throw(e, op, errno) ==
    /\ exc' = e
    /\ fault' = [at |-> pc, op |-> op, errno |-> errno]
    /\ pc' = UnwindPc(fguard, pidfile)

\* read_args(): the options are accepted, or parsing one of them fails
ReadArgs(CmdLines) ==
    /\ pc = "read_args"
    /\ \E args \in CmdLines :
          LET g == read_args_loop(Settings(acstates, foreground, samples), args) IN
          /\ argv' = args
          /\ acstates' = g.acstates
          /\ foreground' = g.foreground
          /\ samples' = g.samples
          /\ IF g.err = "none"
             THEN pc' = "init" /\ UNCHANGED <<exc, fault>>
             ELSE Throw(g.err, "read_args", "none")
    /\ UNCHANGED <<exitcode, signal, delivered, ncpu, acline_ctl, i_loop>>
    /\ UNCHANGED <<bufVars, tickVars, obsVars, objVars, kernVars>>

\* init()
InitDaemon ==
    /\ pc = "init"
    /\ acline_ctl' = kern_mib.acline
    /\ LET err == InitControllersError(kern_mib.freq) IN
       IF err # "none"
       THEN /\ Throw(err, "resolve", InitControllersErrno(kern_mib.freq))
            /\ UNCHANGED <<acstates, cores, cp_times, i_loop, exitcode>>
       ELSE /\ acstates' = InitAcstates(acstates)
            /\ cores' = [c \in Cores |-> InitCore(kern_mib.freq, kern_mib.freq_levels, c)]
            /\ \E ndebug \in BOOLEAN :
                  IF InitAssertFails(kern_mib.freq, kern_mib.freq_levels) # {} /\ ~ndebug
                  THEN /\ exitcode' = "SIGABRT"
                       /\ fault' = [at |-> pc, op |-> "assert", errno |-> "none"]
                       /\ pc' = "exit"
                       /\ UNCHANGED <<exc, cp_times, i_loop>>
                  ELSE /\ cp_times' = ZeroCpTimes(samples * ncpu)
                       /\ pc' = "reset_cp_times"
                       /\ i_loop' = 1
                       /\ UNCHANGED <<exc, fault, exitcode>>
    /\ UNCHANGED <<signal, delivered, argv, foreground, ncpu, samples, sample>>
    /\ UNCHANGED <<tickVars, obsVars, objVars, kernVars>>

\* the kernel's tick counters after delta more ticks
Advance(k, delta) ==
    [c \in DOMAIN k |-> [s \in States |-> CpAdd(k[c][s], delta[c][s])]]

\* update_cp_times(), while the kernel counts delta more ticks; ok tells
\* whether the kernel answers the read of kern.cp_times
update_cp_times(delta, ok, next_pc) ==
    LET k == Advance(kern_cp_times, delta)
        buf == ReadCpTimes(cp_times, sample, k)
        loads == CpTimesLoads(buf, sample)
    IN /\ kern_cp_times' = k
       /\ IF ok
          THEN /\ cp_times' = buf
               /\ cores' = [c \in Cores |-> [cores[c] EXCEPT !.load = loads[c]]]
               /\ raw_load' = loads
               /\ sample' = (sample + 1) % samples
               /\ pc' = next_pc
               /\ UNCHANGED <<exc, fault>>
          ELSE /\ Throw(sysctl_fail, "read", "EIO")
               /\ UNCHANGED <<bufVars, raw_load>>

\* a reset_cp_times() that takes one sample less
PrimingSamplesOneLess(n) == n - 2

\* the number of samples reset_cp_times() takes
PrimingSamples(n) == n - 1

\* reset_cp_times(): one iteration
ResetCpTimes(Deltas, Oks) ==
    /\ pc = "reset_cp_times"
    /\ i_loop <= PrimingSamples(samples)
    /\ \E delta \in Deltas, ok \in Oks : update_cp_times(delta, ok, "reset_cp_times")
    /\ i_loop' = i_loop + 1
    /\ UNCHANGED <<exitcode, signal, delivered, confVars, tickVars, objVars>>
    /\ UNCHANGED <<kern_mib, dev_cpu_freq>>
    /\ UNCHANGED <<acline_read, decided, freq_reads, freq_writes, restore_log>>

\* a run_daemon() that constructs its FreqGuard before its Pidfile
RunDaemonGuardFirst == "FreqGuard"

\* run_daemon(): the first of its locals to be constructed
RunDaemonFirst == "Pidfile"

\* reset_cp_times() returns, run_daemon() is called
ResetCpTimesDone ==
    /\ pc = "reset_cp_times"
    /\ i_loop > PrimingSamples(samples)
    /\ pc' = RunDaemonFirst
    /\ UNCHANGED <<exc, fault, exitcode, signal, delivered, i_loop>>
    /\ UNCHANGED <<confVars, bufVars, tickVars, obsVars, objVars, kernVars>>

\* a run_daemon() that detaches before it constructs its FreqGuard
AfterPidfileDetach == "daemon"

\* run_daemon(): what follows the construction of the Pidfile
AfterPidfile == "FreqGuard"

\* Pidfile(): what the construction can end with: the pidfile is opened
\* and locked ("ok"), it is locked by another instance, whose pid is thrown
\* ("pid_t"), or it cannot be opened; lock tells who holds the lock
PidfileOutcomes(lock, Outcomes) ==
    IF lock = "other" THEN Outcomes \cap {"pid_t"}
    ELSE IF lock = "free" THEN Outcomes \ {"pid_t"}
    ELSE Outcomes

\* the lock of the pidfile when this process has taken it or given it up
PidLocked(lock, holder) == IF lock = "unknown" THEN lock ELSE holder

\* run_daemon(): the Pidfile is constructed
PidfileOpen(Outcomes) ==
    /\ pc = "Pidfile"
    /\ \E o \in PidfileOutcomes(kern_mib.pidlock, Outcomes) :
          IF o = "ok"
          THEN /\ pidfile' = "open"
               /\ kern_mib' = [kern_mib EXCEPT !.pidlock = PidLocked(@, "self")]
               /\ pc' = AfterPidfile
               /\ i_loop' = NextController(cores, 0)
               /\ UNCHANGED <<exc, fault>>
          ELSE /\ Throw(o, "pidfile_open", "none")
               /\ UNCHANGED <<pidfile, i_loop, kern_mib>>
    /\ UNCHANGED <<exitcode, signal, delivered, sighup, fguard>>
    /\ UNCHANGED <<kern_cp_times, dev_cpu_freq>>
    /\ UNCHANGED <<confVars, bufVars, tickVars, obsVars>>

\* FreqGuard() that reports every refusal as a sysctl failure
ProbeErrorAllSysctl(errno) == sysctl_fail

\* FreqGuard(): the exit code it fails with when the kernel refuses the read
\* or the write with errno
ProbeError(errno) == IF errno = "EPERM" THEN "EFORBIDDEN" ELSE sysctl_fail

\* sizeof(mhz_t), the width of the value core.freq is read into
SizeofMhz == 4

\* what an uninitialised mhz_t may hold before it is read into
UninitValues == {0, 65536}

\* sysctl(3) with a buffer that is too small fails with ENOMEM
TooLong(size, ksize) == ksize > size

\* Sysctl::get(T & value): sysctl(3) copies the ksize bytes of the kernel's
\* value kval over the first bytes of value, of size bytes, and fails if
\* they do not fit; the bytes of value it does not reach keep what they held
SysctlGet(size, ksize, kval, value) ==
    IF TooLong(size, ksize)
    THEN [err |-> "ENOMEM", val |-> value]
    ELSE IF ksize = size
    THEN [err |-> "none", val |-> kval]
    ELSE [err |-> "none",
          val |-> (kval % (256 ^ ksize)) + (value - (value % (256 ^ ksize)))]

\* Sync::operator T() on core.freq of core c: T value; sysctl.get(value);
\* uninit is what the uninitialised value holds
SyncRead(c, uninit) ==
    SysctlGet(SizeofMhz, kern_mib.freq_size[c], dev_cpu_freq[c], uninit)

\* what the uninitialised value may hold, as far as the read can show it
Uninit(c) == IF kern_mib.freq_size[c] < SizeofMhz THEN UninitValues ELSE {0}

\* the value the kernel keeps when value is written to dev.cpu.c.freq
KernelStore(c, value) ==
    IF kern_mib.freq_size[c] < SizeofMhz
    THEN value % (256 ^ kern_mib.freq_size[c])
    ELSE value

\* FreqGuard(): the frequency written for the frequency read
ProbeFreq(freq) == freq

\* FreqGuard(): one controller is read and written; the kernel answers both
\* ("ok") or refuses one of them with an errno
FreqGuardProbe(Outcomes, Errnos) ==
    /\ pc = "FreqGuard"
    /\ i_loop < ncpu
    /\ \E o \in Outcomes, errno \in Errnos, uninit \in Uninit(i_loop) :
          LET rd == SyncRead(i_loop, uninit)
              readfails == o = "read_fail" \/ rd.err # "none"
              e == IF rd.err # "none" THEN rd.err ELSE errno
          IN
          /\ freq_reads' = [freq_reads EXCEPT ![i_loop] = @ + 1]
          /\ freq_writes' = IF readfails THEN freq_writes
                            ELSE [freq_writes EXCEPT ![i_loop] = @ + 1]
          /\ IF ~readfails /\ o = "ok"
             THEN /\ dev_cpu_freq' = [dev_cpu_freq EXCEPT
                                         ![i_loop] = KernelStore(i_loop, ProbeFreq(rd.val))]
                  /\ i_loop' = NextController(cores, i_loop + 1)
                  /\ UNCHANGED <<pc, exc, fault>>
             ELSE /\ Throw(ProbeError(e), IF readfails THEN "read" ELSE "write", e)
                  /\ UNCHANGED <<i_loop, dev_cpu_freq>>
    /\ UNCHANGED <<exitcode, signal, delivered, kern_mib, kern_cp_times>>
    /\ UNCHANGED <<raw_load, acline_read, decided, restore_log>>
    /\ UNCHANGED <<confVars, bufVars, tickVars, objVars>>

\* FreqGuard() returns
FreqGuardDone ==
    /\ pc = "FreqGuard"
    /\ i_loop >= ncpu
    /\ fguard' = "alive"
    /\ pc' = "daemon"
    /\ UNCHANGED <<exc, fault, exitcode, signal, delivered, i_loop, sighup, pidfile>>
    /\ UNCHANGED <<confVars, bufVars, tickVars, obsVars, kernVars>>

\* run_daemon(): detach from the terminal, unless in foreground
Detach(Outcomes) ==
    /\ pc = "daemon"
    /\ \E o \in Outcomes :
          IF foreground \/ o = "ok"
          THEN pc' = "signal" /\ UNCHANGED <<exc, fault>>
          ELSE Throw("EDAEMON", "daemon", "none")
    /\ UNCHANGED <<exitcode, signal, delivered, i_loop>>
    /\ UNCHANGED <<confVars, bufVars, tickVars, obsVars, objVars, kernVars>>

\* run_daemon(): the disposition it gives SIGHUP
SighupHandler(fg) == IF fg THEN "signal_recv" ELSE "SIG_IGN"

\* run_daemon(): setup SIGHUP
SetupSighup ==
    /\ pc = "signal"
    /\ sighup' = SighupHandler(foreground)
    /\ pc' = "pidfile.write"
    /\ UNCHANGED <<exc, fault, exitcode, signal, delivered, i_loop, pidfile, fguard>>
    /\ UNCHANGED <<confVars, bufVars, tickVars, obsVars, kernVars>>

\* run_daemon(): write pid
PidfileWrite(Outcomes) ==
    /\ pc = "pidfile.write"
    /\ \E o \in Outcomes :
          IF o = "ok"
          THEN pidfile' = "written" /\ pc' = "while" /\ UNCHANGED <<exc, fault>>
          ELSE Throw("EPID", "pidfile_write", "none") /\ pidfile' = pidfile
    /\ UNCHANGED <<exitcode, signal, delivered, i_loop, sighup, fguard>>
    /\ UNCHANGED <<confVars, bufVars, tickVars, obsVars, kernVars>>


\* a loop condition that only SIGTERM ends
LoopContinuesUntilTerm(sig) == sig # SIGTERM

\* run_daemon(): the condition of the main loop
LoopContinues(sig) == sig = 0

\* run_daemon(): the main loop is entered again, or left when g.signal is
\* set
WhileSignal ==
    /\ pc = "while"
    /\ IF LoopContinues(signal)
       THEN /\ ticks < MaxTicks
            /\ pc' = "sleep_until"
            /\ i_loop' = i_loop
       ELSE /\ pc' = "~FreqGuard"
            /\ i_loop' = NextController(cores, 0)
    /\ UNCHANGED <<exc, fault, exitcode, signal, delivered>>
    /\ UNCHANGED <<confVars, bufVars, tickVars, obsVars, objVars, kernVars>>

\* run_daemon(): sleep_until() returns and update_freq() is called
SleepUntil ==
    /\ pc = "sleep_until"
    /\ pc' = "update_cp_times"
    /\ ticks' = ticks + 1
    /\ late_ticks' = IF signal # 0 THEN late_ticks + 1 ELSE late_ticks
    /\ decided' = << >>
    /\ freq_reads' = NoAccess
    /\ freq_writes' = NoAccess
    /\ acline_read' = [ok |-> FALSE, val |-> 0]
    /\ UNCHANGED <<exc, fault, exitcode, signal, delivered, i_loop, acline, acstate>>
    /\ UNCHANGED <<raw_load, restore_log>>
    /\ UNCHANGED <<confVars, bufVars, objVars, kernVars>>

\* update_freq() -> update_load_times() -> update_cp_times()
TickCpTimes(Deltas, Oks) ==
    /\ pc = "update_cp_times"
    /\ \E delta \in Deltas, ok \in Oks : update_cp_times(delta, ok, "update_load_times")
    /\ UNCHANGED <<exitcode, signal, delivered, i_loop, confVars, tickVars, objVars>>
    /\ UNCHANGED <<kern_mib, dev_cpu_freq>>
    /\ UNCHANGED <<acline_read, decided, freq_reads, freq_writes, restore_log>>

\* an update_freq() that decides before it has read the AC line state
AfterLoadTimesDecides == "update_freq"

\* update_freq(): what follows the call of update_load_times()
AfterLoadTimes == "acline"

\* update_load_times(): the loop over the cores
TickLoadTimes ==
    /\ pc = "update_load_times"
    /\ cores' = update_load_times(cores)
    /\ pc' = AfterLoadTimes
    /\ UNCHANGED <<exc, fault, exitcode, signal, delivered, i_loop, sample, cp_times>>
    /\ UNCHANGED <<confVars, tickVars, obsVars, objVars, kernVars>>

\* what a read of g.acstates[] past its end can give
OutOfBoundsAcstates ==
    {[freq_min |-> 0, freq_max |-> 0, target_load |-> 0, target_freq |-> 0],
     [freq_min |-> 3, freq_max |-> 1, target_load |-> 2, target_freq |-> 7]}

\* the index into g.acstates for the value once() returned
AclineIndex(value) == value

\* update_freq(): assert(acstate.target_load <= 1024)
LoadTargetAsserted(st) == st.target_load <= 1024

\* update_freq(): get AC line status
TickAcline(Reads) ==
    /\ pc = "acline"
    /\ \E r \in Reads :
          LET a == AclineIndex(Once(UNKNOWN, acline_ctl, r)) IN
          /\ acline' = a
          /\ acline_read' = [ok |-> acline_ctl /\ r.ok, val |-> r.val]
          /\ IF a \in DOMAIN acstates
             THEN /\ acstate' = acstates[a]
                  /\ \E ndebug \in BOOLEAN :
                        IF LoadTargetAsserted(acstates[a]) \/ ndebug
                        THEN /\ pc' = "update_freq"
                             /\ UNCHANGED <<exitcode, fault>>
                        ELSE /\ pc' = "exit"
                             /\ exitcode' = "SIGABRT"
                             /\ fault' = [at |-> pc, op |-> "assert", errno |-> "none"]
             ELSE \/ /\ acstate' \in OutOfBoundsAcstates
                     /\ pc' = "update_freq"
                     /\ UNCHANGED <<exitcode, fault>>
                  \/ /\ acstate' = acstate
                     /\ pc' = "exit"
                     /\ exitcode' = "SIGSEGV"
                     /\ UNCHANGED fault
    /\ i_loop' = NextController(cores, 0)
    /\ UNCHANGED <<exc, signal, delivered, ticks, late_ticks>>
    /\ UNCHANGED <<raw_load, decided, freq_reads, freq_writes, restore_log>>
    /\ UNCHANGED <<confVars, bufVars, objVars, kernVars>>

\* update_freq(): what is thrown when the kernel refuses the read or the
\* write of dev.cpu.N.freq with errno: the sc_error of the sysctl wrapper,
\* which update_freq() does not catch
TickError(errno) == "sc_error<ctl>"

\* update_freq(): the loop body for one controller; the kernel answers the
\* read and the write of dev.cpu.N.freq ("ok") or refuses one of them
\* (what is read and what is wanted are bound by \E, to be computed once)
TickCore(Outcomes, Errnos) ==
    /\ pc = "update_freq"
    /\ i_loop < ncpu
    /\ \E o \in Outcomes, errno \in Errnos, uninit \in Uninit(i_loop) :
       \E rd \in {SyncRead(i_loop, uninit)} :
          LET core == cores[i_loop]
              readfails == o = "read_fail" \/ rd.err # "none"
              e == IF rd.err # "none" THEN rd.err ELSE errno
              oldfreq == rd.val
          IN
          /\ freq_reads' = [freq_reads EXCEPT ![i_loop] = @ + 1]
          /\ IF readfails
             THEN /\ Throw(TickError(e), "read", e)
                  /\ UNCHANGED <<decided, freq_writes, dev_cpu_freq, i_loop, exitcode>>
             ELSE \E ndebug \in Builds(acstate, oldfreq),
                     wide \in ProductWidths(acstate, oldfreq, core.load) :
                  \E wantfreq \in {WantFreq(acstate, oldfreq, core.load, wide)} :
                  LET newfreq == NewFreq(core, acstate, wantfreq)
                      writes == WritesFreq(oldfreq, newfreq)
                  IN
                  IF OldFreqAborts(acstate, oldfreq, ndebug)
                  THEN /\ pc' = "exit"
                       /\ exitcode' = "SIGABRT"
                       /\ fault' = [at |-> pc, op |-> "assert", errno |-> "none"]
                       /\ UNCHANGED <<decided, freq_writes, dev_cpu_freq, i_loop, exc>>
                  ELSE
                  /\ decided' = decided @@ (i_loop :>
                        [old |-> oldfreq, want |-> wantfreq, new |-> newfreq,
                         load |-> core.load, min |-> LimitMin(core, acstate),
                         max |-> LimitMax(core, acstate), st |-> acstate,
                         asserted |-> OldFreqAsserted(oldfreq)])
                  /\ freq_writes' = IF writes
                                    THEN [freq_writes EXCEPT ![i_loop] = @ + 1]
                                    ELSE freq_writes
                  /\ IF writes /\ o = "write_fail"
                     THEN /\ Throw(TickError(errno), "write", errno)
                          /\ UNCHANGED <<dev_cpu_freq, i_loop, exitcode>>
                     ELSE /\ dev_cpu_freq' = IF writes
                                             THEN [dev_cpu_freq EXCEPT
                                                       ![i_loop] = KernelStore(i_loop, newfreq)]
                                             ELSE dev_cpu_freq
                          /\ i_loop' = NextController(cores, i_loop + 1)
                          /\ UNCHANGED <<pc, exc, fault, exitcode>>
    /\ UNCHANGED <<signal, delivered, kern_mib, kern_cp_times>>
    /\ UNCHANGED <<raw_load, acline_read, restore_log>>
    /\ UNCHANGED <<confVars, bufVars, tickVars, objVars>>

\* update_freq() returns
TickDone ==
    /\ pc = "update_freq"
    /\ i_loop >= ncpu
    /\ pc' = "while"
    /\ UNCHANGED <<exc, fault, exitcode, signal, delivered, i_loop>>
    /\ UNCHANGED <<confVars, bufVars, tickVars, obsVars, objVars, kernVars>>

\* ~FreqGuard() that gives up at the first write the kernel refuses
AfterRestoreGivesUp(o, c) ==
    IF o = "ok" THEN NextController(cores, c + 1) ELSE ncpu

\* ~FreqGuard(): the position after the write for one controller, which the
\* kernel accepted ("ok") or refused
AfterRestore(o, c) == NextController(cores, c + 1)

\* ~FreqGuard(): its loop variable corei, which starts at the first
\* controller and follows the writes made so far
RestoreCorei ==
    IF restore_log = << >> THEN NextController(cores, 0)
    ELSE LET last == restore_log[Len(restore_log)] IN
         AfterRestore(IF last.ok THEN "ok" ELSE "fail", last.core)

\* ~FreqGuard(): one controller is set to its maximum
FreqGuardRestore(Outcomes) ==
    /\ pc = "~FreqGuard"
    /\ RestoreCorei < ncpu
    /\ \E o \in Outcomes :
          LET corei == RestoreCorei IN
          /\ restore_log' = Append(restore_log,
                 [core |-> corei, freq |-> cores[corei].max, ok |-> o = "ok"])
          /\ dev_cpu_freq' = IF o = "ok"
                             THEN [dev_cpu_freq EXCEPT
                                       ![corei] = KernelStore(corei, cores[corei].max)]
                             ELSE dev_cpu_freq
    /\ UNCHANGED <<pc, exc, fault, exitcode, signal, delivered, i_loop, kern_mib, kern_cp_times>>
    /\ UNCHANGED <<raw_load, acline_read, decided, freq_reads, freq_writes>>
    /\ UNCHANGED <<confVars, bufVars, tickVars, objVars>>

\* ~FreqGuard() returns
FreqGuardDestroyed ==
    /\ pc = "~FreqGuard"
    /\ RestoreCorei >= ncpu
    /\ fguard' = "destroyed"
    /\ pc' = "~Pidfile"
    /\ UNCHANGED <<exc, fault, exitcode, signal, delivered, i_loop, sighup, pidfile>>
    /\ UNCHANGED <<confVars, bufVars, tickVars, obsVars, kernVars>>

\* ~Pidfile(): the pidfile is removed; run_daemon() is left, by return or
\* by the exception in flight
PidfileRemove ==
    /\ pc = "~Pidfile"
    /\ pidfile' = "removed"
    /\ kern_mib' = [kern_mib EXCEPT !.pidlock = PidLocked(@, "free")]
    /\ pc' = IF exc = "none" THEN "return" ELSE "catch"
    /\ UNCHANGED <<exc, fault, exitcode, signal, delivered, i_loop, sighup, fguard>>
    /\ UNCHANGED <<kern_cp_times, dev_cpu_freq>>
    /\ UNCHANGED <<confVars, bufVars, tickVars, obsVars>>

\* the exit code main() returns for the exception its handlers receive; an
\* exception that is not treated is thrown again and terminates the process
MainExit(e) ==
    IF e = "pid_t" THEN "ECONFLICT"
    ELSE IF e = "sc_error<pid>" THEN "EPID"
    ELSE IF e = "sc_error<ctl>" THEN "SIGABRT"
    ELSE e

\* main(): the handlers
MainCatch ==
    /\ pc = "catch"
    /\ exitcode' = MainExit(exc)
    /\ pc' = "exit"
    /\ UNCHANGED <<exc, fault, signal, delivered, i_loop>>
    /\ UNCHANGED <<confVars, bufVars, tickVars, obsVars, objVars, kernVars>>

\* main(): return 0
MainReturn ==
    /\ pc = "return"
    /\ exitcode' = "OK"
    /\ pc' = "exit"
    /\ UNCHANGED <<exc, fault, signal, delivered, i_loop>>
    /\ UNCHANGED <<confVars, bufVars, tickVars, obsVars, objVars, kernVars>>

\* a handler that does not store the signal
signal_recv_drops(sig) == 0

\* signal_recv(): the value g.signal gets
signal_recv(sig) == sig

\* the disposition of signal sig: main() installs signal_recv for SIGINT and
\* SIGTERM before anything else, hup is the disposition of SIGHUP
Disposition(sig, hup) == IF sig = SIGHUP THEN hup ELSE "signal_recv"

\* a signal is delivered to the process: it is handled, ignored, or ends
\* the process at once
Signal(Sigs) ==
    /\ pc # "exit"
    /\ \E sig \in Sigs :
          LET d == Disposition(sig, sighup) IN
          /\ delivered' = [sig |-> sig, was |-> signal]
          /\ signal' = IF d = "signal_recv" THEN signal_recv(sig) ELSE signal
          /\ IF d = "SIG_DFL"
             THEN /\ pc' = "exit"
                  /\ exitcode' = "SIGHUP"
                  /\ fault' = [at |-> pc, op |-> "signal", errno |-> "none"]
             ELSE UNCHANGED <<pc, exitcode, fault>>
    /\ UNCHANGED <<exc, i_loop>>
    /\ UNCHANGED <<confVars, bufVars, tickVars, obsVars, objVars, kernVars>>


(***************************************************************************)
(* The environments of the specifications: kernels, command lines, tick    *)
(* profiles, and what the kernel answers.                                  *)
(***************************************************************************)
\* a per core table from a sequence
PerCore(seq) == [c \in 0 .. (Len(seq) - 1) |-> seq[c + 1]]

\* the freq_levels string of a list of frequencies, "f/0 f/0 ... f/0"
RECURSIVE LevelsString(_)
LevelsString(list) ==
    IF list = << >> THEN << >>
    ELSE <<Num(Head(list)), Slash, Num(0)>> \o
         (IF Tail(list) = << >> THEN << >> ELSE <<Space>> \o LevelsString(Tail(list)))

\* dev.cpu.N.freq_levels with the value str, with the frequencies of list,
\* and a kernel without it
LevelsStr(str) == [present |-> TRUE, str |-> str]
Levels(list) == LevelsStr(LevelsString(list))
NoLevels == [present |-> FALSE, str |-> << >>]

\* the ticks the kernel adds to the states of one core between two samples
ProfileIdle == [s \in States |-> IF s = CP_IDLE THEN TickUnit ELSE 0]
ProfileBusy == [s \in States |-> IF s = 0 THEN TickUnit ELSE 0]
ProfileHalf == [s \in States |-> IF s \in {2, CP_IDLE} THEN TickUnit ELSE 0]
ProfileMost == [s \in States |-> IF s = CP_IDLE THEN 1 ELSE IF s < 3 THEN TickUnit ELSE 0]
ProfileNone == [s \in States |-> 0]

\* the tick counters of a core at the start: zero, all about to wrap around,
\* or the idle counter alone about to wrap around
CountersZero == [s \in States |-> 0]
CountersWrap == [s \in States |-> CptimeMod - 1]
CountersIdleWrap == [s \in States |-> IF s = CP_IDLE THEN CptimeMod - 1 ELSE 3]

Opt(o, a) == [opt |-> o, arg |-> a]
Read(v) == [ok |-> TRUE, val |-> v]
ReadFails == [ok |-> FALSE, val |-> 0]

\* the number of bytes of the values dev.cpu.N.freq of kernel k: those of an
\* int, unless the kernel says otherwise
FreqSize(k) ==
    IF "freq_size" \in DOMAIN k THEN k.freq_size
    ELSE [c \in 0 .. (k.ncpu - 1) |-> SizeofMhz]

\* who holds the lock of the pidfile on kernel k: no process ("free"),
\* another instance ("other"), or it is not told ("unknown")
PidLock(k) == IF "pidlock" \in DOMAIN k THEN k.pidlock ELSE "unknown"

\* the state main() starts in, on kernel k
InitOn(k) ==
    /\ pc = "read_args"
    /\ exc = "none"
    /\ exitcode = "running"
    /\ signal = 0
    /\ argv = << >>
    /\ foreground = FALSE
    /\ ncpu = k.ncpu
    /\ samples = DefaultSamples
    /\ sample = 0
    /\ cp_times = << >>
    /\ cores = << >>
    /\ acstates = DefaultAcstates
    /\ acline_ctl = FALSE
    /\ i_loop = 0
    /\ acline = UNKNOWN
    /\ acstate = DefaultAcstates[UNKNOWN]
    /\ sighup = "SIG_DFL"
    /\ pidfile = "none"
    /\ fguard = "none"
    /\ kern_mib = [acline |-> k.acline, freq |-> k.freq, freq_levels |-> k.freq_levels,
                   freq_size |-> FreqSize(k), pidlock |-> PidLock(k)]
    /\ kern_cp_times = k.cp_times
    /\ dev_cpu_freq = k.dev_cpu_freq
    /\ ticks = 0
    /\ late_ticks = 0
    /\ raw_load = [c \in 0 .. (k.ncpu - 1) |-> 0]
    /\ acline_read = [ok |-> FALSE, val |-> 0]
    /\ decided = << >>
    /\ freq_reads = [c \in 0 .. (k.ncpu - 1) |-> 0]
    /\ freq_writes = [c \in 0 .. (k.ncpu - 1) |-> 0]
    /\ restore_log = << >>
    /\ fault = NoFault
    /\ delivered = [sig |-> 0, was |-> 0]

(***************************************************************************)
(* Spec: the life of the daemon, with every failure of the kernel and      *)
(* signals at any moment, on two cores.                                    *)
(***************************************************************************)
DaemonKernels ==
    {[ncpu |-> 2, acline |-> a, freq |-> PerCore(<<"ok", f1>>),
      freq_levels |-> PerCore(<<Levels(<<2400, 1600, 800>>), l1>>),
      cp_times |-> PerCore(<<CountersZero, CountersZero>>),
      dev_cpu_freq |-> PerCore(<<1600, 800>>)] :
        a \in BOOLEAN, f1 \in {"ok", "ENOENT"}, l1 \in {NoLevels}}
    \cup
    {[ncpu |-> 2, acline |-> TRUE, freq |-> PerCore(<<f0, "ok">>),
      freq_levels |-> PerCore(<<NoLevels, NoLevels>>),
      cp_times |-> PerCore(<<CountersZero, CountersZero>>),
      dev_cpu_freq |-> PerCore(<<1600, 800>>)] : f0 \in {"ENOENT", "EIO"}}

DaemonCmdLines ==
    {<<Opt("CNT_SAMPLES", MaxSamples)>>,
     <<Opt("FLAG_FOREGROUND", 0), Opt("CNT_SAMPLES", MaxSamples)>>}

DaemonDeltas == {[c \in Cores |-> p] : p \in {ProfileIdle, ProfileBusy}}

Init == \E k \in DaemonKernels : InitOn(k)

\* the steps of the main thread
NextMain ==
    \/ ReadArgs(DaemonCmdLines)
    \/ InitDaemon
    \/ ResetCpTimes(DaemonDeltas, BOOLEAN)
    \/ ResetCpTimesDone
    \/ PidfileOpen({"ok", "pid_t", "sc_error<pid>"})
    \/ FreqGuardProbe({"ok", "read_fail", "write_fail"}, {"EPERM", "EIO"})
    \/ FreqGuardDone
    \/ Detach({"ok", "fail"})
    \/ SetupSighup
    \/ PidfileWrite({"ok", "fail"})
    \/ WhileSignal
    \/ SleepUntil
    \/ TickCpTimes(DaemonDeltas, BOOLEAN)
    \/ TickLoadTimes
    \/ TickAcline({Read(BATTERY), Read(ONLINE), ReadFails})
    \/ TickCore({"ok", "read_fail", "write_fail"}, {"EIO"})
    \/ TickDone
    \/ FreqGuardRestore({"ok", "fail"})
    \/ FreqGuardDestroyed
    \/ PidfileRemove
    \/ MainCatch
    \/ MainReturn

Next ==
    \/ NextMain
    \/ Signal({SIGTERM})

Spec == Init /\ [][Next]_vars

\* FairSpec: the daemon on a kernel with two controllers, with a main thread
\* that is never suspended for ever: every sleep and every call of the
\* kernel returns
CancelKernels ==
    {k \in DaemonKernels : k.acline /\ \A c \in 0 .. (k.ncpu - 1) : k.freq[c] = "ok"}

InitCancel == \E k \in CancelKernels : InitOn(k)

\* the steps of the main thread; the kernel only fails within the main loop
NextCancelMain ==
    \/ ReadArgs(DaemonCmdLines)
    \/ InitDaemon
    \/ ResetCpTimes(DaemonDeltas, {TRUE})
    \/ ResetCpTimesDone
    \/ PidfileOpen({"ok"})
    \/ FreqGuardProbe({"ok"}, {"EPERM"})
    \/ FreqGuardDone
    \/ Detach({"ok"})
    \/ SetupSighup
    \/ PidfileWrite({"ok"})
    \/ WhileSignal
    \/ SleepUntil
    \/ TickCpTimes(DaemonDeltas, BOOLEAN)
    \/ TickLoadTimes
    \/ TickAcline({Read(ONLINE), ReadFails})
    \/ TickCore({"ok", "read_fail", "write_fail"}, {"EIO"})
    \/ TickDone
    \/ FreqGuardRestore({"ok", "fail"})
    \/ FreqGuardDestroyed
    \/ PidfileRemove
    \/ MainCatch
    \/ MainReturn

NextCancel ==
    \/ NextCancelMain
    \/ Signal({SIGINT})

FairSpec == InitCancel /\ [][NextCancel]_vars /\ WF_vars(NextCancelMain)


(***************************************************************************)
(* SpecLoad: the sampling of the tick counters and the loads, on three     *)
(* cores in every grouping, with counters that wrap around, and a kernel   *)
(* that never fails.  The frequency is fixed to the minimum.               *)
(***************************************************************************)
LoadKernels ==
    {[ncpu |-> 3, acline |-> FALSE, freq |-> PerCore(<<"ok", f1, f2>>),
      freq_levels |-> PerCore(<<Levels(<<1600, 800>>), NoLevels, NoLevels>>),
      cp_times |-> PerCore(<<b[1], b[2], b[2]>>),
      dev_cpu_freq |-> PerCore(<<800, 800, 800>>)] :
        f1 \in {"ok", "ENOENT"}, f2 \in {"ok", "ENOENT"},
        b \in {<<CountersZero, CountersWrap>>, <<CountersWrap, CountersIdleWrap>>}}

LoadCmdLines ==
    {<<Opt("MODE_UNKNOWN", Word("min")), Opt("CNT_SAMPLES", n)>> : n \in 2 .. MaxSamples}

LoadDeltas ==
    {[c \in Cores |-> p] : p \in {ProfileIdle, ProfileHalf, ProfileNone}}
    \cup {[c \in Cores |-> IF c = 0 THEN ProfileIdle ELSE ProfileBusy],
          [c \in Cores |-> IF c = 1 THEN ProfileHalf ELSE ProfileMost]}

InitLoad == \E k \in LoadKernels : InitOn(k)

NextLoad ==
    \/ ReadArgs(LoadCmdLines)
    \/ InitDaemon
    \/ ResetCpTimes(LoadDeltas, {TRUE})
    \/ ResetCpTimesDone
    \/ PidfileOpen({"ok"})
    \/ FreqGuardProbe({"ok"}, {"EPERM"})
    \/ FreqGuardDone
    \/ Detach({"ok"})
    \/ SetupSighup
    \/ PidfileWrite({"ok"})
    \/ WhileSignal
    \/ SleepUntil
    \/ TickCpTimes(LoadDeltas, {TRUE})
    \/ TickLoadTimes
    \/ TickAcline({ReadFails})
    \/ TickCore({"ok"}, {"EIO"})
    \/ TickDone

SpecLoad == InitLoad /\ [][NextLoad]_vars

(***************************************************************************)
(* SpecFreq: the decisions of update_freq() for many policies, hardware    *)
(* limits and AC line values, on two cores.                                *)
(***************************************************************************)
FreqKernels ==
    {[ncpu |-> 2, acline |-> a, freq |-> PerCore(<<"ok", f1>>),
      freq_levels |-> PerCore(<<Levels(<<2400, 1600, 800>>), NoLevels>>),
      cp_times |-> PerCore(<<CountersZero, CountersZero>>),
      dev_cpu_freq |-> PerCore(<<1600, 1000>>)] :
        a \in BOOLEAN, f1 \in {"ok", "ENOENT"}}

FreqCmdLines ==
    {<<Opt("CNT_SAMPLES", MaxSamples)>>,
     <<Opt("MODE_AC", Milli(500, "")), Opt("FREQ_MIN", 500), Opt("FREQ_MAX", 3000),
       Opt("MODE_BATT", Milli(800000, "mhz")), Opt("CNT_SAMPLES", MaxSamples)>>,
     <<Opt("MODE_AC", Milli(1000, "")), Opt("FREQ_MAX_AC", 500),
       Opt("MODE_BATT", Word("max")), Opt("FREQ_MIN_BATT", 3000),
       Opt("MODE_UNKNOWN", Milli(1200000, "mhz")), Opt("CNT_SAMPLES", MaxSamples)>>,
     <<Opt("MODE_AC", Milli(1, "")), Opt("FREQ_MIN", 2000), Opt("FREQ_MAX", 1000),
       Opt("MODE_BATT", Word("min")), Opt("FREQ_MAX_BATT", 2000),
       Opt("MODE_UNKNOWN", Word("adp")), Opt("CNT_SAMPLES", MaxSamples)>>}

FreqDeltas ==
    {[c \in Cores |-> p] : p \in {ProfileHalf, ProfileBusy}}
    \cup {[c \in Cores |-> IF c = 0 THEN ProfileMost ELSE ProfileIdle]}

FreqReads == {Read(BATTERY), Read(ONLINE), ReadFails}

InitFreq == \E k \in FreqKernels : InitOn(k)

NextFreq ==
    \/ ReadArgs(FreqCmdLines)
    \/ InitDaemon
    \/ ResetCpTimes(FreqDeltas, {TRUE})
    \/ ResetCpTimesDone
    \/ PidfileOpen({"ok"})
    \/ FreqGuardProbe({"ok"}, {"EPERM"})
    \/ FreqGuardDone
    \/ Detach({"ok"})
    \/ SetupSighup
    \/ PidfileWrite({"ok"})
    \/ WhileSignal
    \/ SleepUntil
    \/ TickCpTimes(FreqDeltas, {TRUE})
    \/ TickLoadTimes
    \/ TickAcline(FreqReads)
    \/ TickCore({"ok"}, {"EIO"})
    \/ TickDone

SpecFreq == InitFreq /\ [][NextFreq]_vars



(***************************************************************************)
(* SpecAcline: as SpecFreq, with the default policies and a kernel that    *)
(* returns any small number as the AC line value.                          *)
(***************************************************************************)
AclineKernels == {k \in FreqKernels : k.acline}

AclineCmdLines == {<<Opt("CNT_SAMPLES", MaxSamples)>>}

AclineDeltas == {[c \in Cores |-> ProfileHalf]}

AclineReads == {Read(v) : v \in 0 .. 3} \cup {ReadFails}

InitAcline == \E k \in AclineKernels : InitOn(k)

NextAcline ==
    \/ ReadArgs(AclineCmdLines)
    \/ InitDaemon
    \/ ResetCpTimes(AclineDeltas, {TRUE})
    \/ ResetCpTimesDone
    \/ PidfileOpen({"ok"})
    \/ FreqGuardProbe({"ok"}, {"EPERM"})
    \/ FreqGuardDone
    \/ Detach({"ok"})
    \/ SetupSighup
    \/ PidfileWrite({"ok"})
    \/ WhileSignal
    \/ SleepUntil
    \/ TickCpTimes(AclineDeltas, {TRUE})
    \/ TickLoadTimes
    \/ TickAcline(AclineReads)
    \/ TickCore({"ok"}, {"EIO"})
    \/ TickDone

SpecAcline == InitAcline /\ [][NextAcline]_vars

(***************************************************************************)
(* SpecFault: the daemon without signals, on a kernel that refuses reads   *)
(* and writes of dev.cpu.N.freq with a permission error or another error,  *)
(* in the FreqGuard and in the main loop.                                  *)
(***************************************************************************)
FaultKernels ==
    {k \in DaemonKernels : k.acline /\ k.freq[0] = "ok"}

FaultErrnos == {"EPERM", "EIO"}

InitFault == \E k \in FaultKernels : InitOn(k)

NextFault ==
    \/ ReadArgs(DaemonCmdLines)
    \/ InitDaemon
    \/ ResetCpTimes(DaemonDeltas, {TRUE})
    \/ ResetCpTimesDone
    \/ PidfileOpen({"ok"})
    \/ FreqGuardProbe({"ok", "read_fail", "write_fail"}, FaultErrnos)
    \/ FreqGuardDone
    \/ Detach({"ok", "fail"})
    \/ SetupSighup
    \/ PidfileWrite({"ok"})
    \/ WhileSignal
    \/ SleepUntil
    \/ TickCpTimes(DaemonDeltas, BOOLEAN)
    \/ TickLoadTimes
    \/ TickAcline({Read(ONLINE), ReadFails})
    \/ TickCore({"ok", "read_fail", "write_fail"}, FaultErrnos)
    \/ TickDone
    \/ FreqGuardRestore({"ok", "fail"})
    \/ FreqGuardDestroyed
    \/ PidfileRemove
    \/ MainCatch

SpecFault == InitFault /\ [][NextFault]_vars


(***************************************************************************)
(* SpecTopology: init() on three cores, where the kernel has               *)
(* dev.cpu.N.freq, has it not, or fails to resolve it, for every core.     *)
(***************************************************************************)
TopologyKernels ==
    {[ncpu |-> 3, acline |-> FALSE, freq |-> PerCore(<<f0, f1, f2>>),
      freq_levels |-> PerCore(<<Levels(<<1600, 800>>), NoLevels, Levels(<<2400, 1200>>)>>),
      cp_times |-> PerCore(<<CountersZero, CountersZero, CountersZero>>),
      dev_cpu_freq |-> PerCore(<<800, 800, 1200>>)] :
        f0 \in {"ok", "ENOENT", "EIO"}, f1 \in {"ok", "ENOENT", "EIO"},
        f2 \in {"ok", "ENOENT", "EIO"}}

TopologyCmdLines == {<<Opt("CNT_SAMPLES", 2)>>, <<Opt("FLAG_FOREGROUND", 0), Opt("CNT_SAMPLES", 2)>>}

TopologyDeltas == {[c \in Cores |-> p] : p \in {ProfileIdle, ProfileBusy}}

InitTopology == \E k \in TopologyKernels : InitOn(k)

NextTopology ==
    \/ ReadArgs(TopologyCmdLines)
    \/ InitDaemon
    \/ ResetCpTimes(TopologyDeltas, {TRUE})
    \/ ResetCpTimesDone
    \/ PidfileOpen({"ok"})
    \/ FreqGuardProbe({"ok"}, {"EPERM"})
    \/ FreqGuardDone
    \/ MainCatch

SpecTopology == InitTopology /\ [][NextTopology]_vars

(***************************************************************************)
(* SpecArgs: the daemon on command lines with sample counts and frequency  *)
(* boundaries at and beyond the ends of the accepted ranges.               *)
(***************************************************************************)
ArgsKernels ==
    {k \in DaemonKernels : k.acline /\ \A c \in 0 .. (k.ncpu - 1) : k.freq[c] = "ok"}

ArgsCmdLines ==
    {<<Opt("CNT_SAMPLES", 0)>>,
     <<Opt("CNT_SAMPLES", 1)>>,
     <<Opt("CNT_SAMPLES", 2)>>,
     <<Opt("FLAG_FOREGROUND", 0), Opt("CNT_SAMPLES", 1001)>>,
     <<Opt("FREQ_MIN", 1000), Opt("FREQ_MAX_AC", 2000), Opt("CNT_SAMPLES", 2)>>,
     <<Opt("FREQ_MIN", 1000000), Opt("FREQ_MAX", 1000000), Opt("CNT_SAMPLES", 2)>>,
     <<Opt("FREQ_MAX", 1000001), Opt("CNT_SAMPLES", 2)>>,
     <<Opt("FREQ_MIN_BATT", 1200), Opt("FREQ_MIN_BATT", 900), Opt("FREQ_MAX_BATT", 1500),
       Opt("FREQ_MIN_AC", 0), Opt("CNT_SAMPLES", 2)>>}

ArgsDeltas == {[c \in Cores |-> p] : p \in {ProfileIdle, ProfileBusy}}

InitArgs == \E k \in ArgsKernels : InitOn(k)

NextArgs ==
    \/ ReadArgs(ArgsCmdLines)
    \/ InitDaemon
    \/ ResetCpTimes(ArgsDeltas, {TRUE})
    \/ ResetCpTimesDone
    \/ PidfileOpen({"ok"})
    \/ FreqGuardProbe({"ok"}, {"EPERM"})
    \/ FreqGuardDone
    \/ Detach({"ok"})
    \/ SetupSighup
    \/ PidfileWrite({"ok"})
    \/ WhileSignal
    \/ SleepUntil
    \/ TickCpTimes(ArgsDeltas, {TRUE})
    \/ TickLoadTimes
    \/ TickAcline({Read(BATTERY), Read(ONLINE), ReadFails})
    \/ TickCore({"ok"}, {"EIO"})
    \/ TickDone
    \/ MainCatch

SpecArgs == InitArgs /\ [][NextArgs]_vars

(***************************************************************************)
(* SpecWindow: the loads over the window of the ring buffer, with tick     *)
(* counters that start at zero and stand still or advance by the same      *)
(* increments from read to read.                                           *)
(***************************************************************************)
WindowKernels ==
    {[ncpu |-> 2, acline |-> FALSE, freq |-> PerCore(<<"ok", f1>>),
      freq_levels |-> PerCore(<<Levels(<<2400, 1600, 800>>), NoLevels>>),
      cp_times |-> PerCore(<<CountersZero, CountersZero>>),
      dev_cpu_freq |-> PerCore(<<1600, 1000>>)] : f1 \in {"ok", "ENOENT"}}

WindowCmdLines == {<<Opt("CNT_SAMPLES", n)>> : n \in 2 .. MaxSamples}

WindowDeltas ==
    {[c \in Cores |-> p] : p \in {ProfileNone, ProfileMost, ProfileBusy}}
    \cup {[c \in Cores |-> IF c = 0 THEN ProfileMost ELSE ProfileNone]}

InitWindow == \E k \in WindowKernels : InitOn(k)

NextWindow ==
    \/ ReadArgs(WindowCmdLines)
    \/ InitDaemon
    \/ ResetCpTimes(WindowDeltas, {TRUE})
    \/ ResetCpTimesDone
    \/ PidfileOpen({"ok"})
    \/ FreqGuardProbe({"ok"}, {"EPERM"})
    \/ FreqGuardDone
    \/ Detach({"ok"})
    \/ SetupSighup
    \/ PidfileWrite({"ok"})
    \/ WhileSignal
    \/ SleepUntil
    \/ TickCpTimes(WindowDeltas, {TRUE})
    \/ TickLoadTimes
    \/ TickAcline({ReadFails})
    \/ TickCore({"ok"}, {"EIO"})
    \/ TickDone

SpecWindow == InitWindow /\ [][NextWindow]_vars

(***************************************************************************)
(* SpecSignal: the daemon and a foreground process, to which SIGHUP,       *)
(* SIGINT and SIGTERM are delivered at any moment, any number of times;    *)
(* the main thread is never suspended for ever.                            *)
(***************************************************************************)
SignalKernels == CancelKernels

SignalDeltas == {[c \in Cores |-> ProfileBusy]}

InitSignal == \E k \in SignalKernels : InitOn(k)

NextSignalMain ==
    \/ ReadArgs(DaemonCmdLines)
    \/ InitDaemon
    \/ ResetCpTimes(SignalDeltas, {TRUE})
    \/ ResetCpTimesDone
    \/ PidfileOpen({"ok"})
    \/ FreqGuardProbe({"ok"}, {"EPERM"})
    \/ FreqGuardDone
    \/ Detach({"ok"})
    \/ SetupSighup
    \/ PidfileWrite({"ok"})
    \/ WhileSignal
    \/ SleepUntil
    \/ TickCpTimes(SignalDeltas, {TRUE})
    \/ TickLoadTimes
    \/ TickAcline({Read(ONLINE)})
    \/ TickCore({"ok"}, {"EIO"})
    \/ TickDone
    \/ FreqGuardRestore({"ok"})
    \/ FreqGuardDestroyed
    \/ PidfileRemove
    \/ MainReturn

NextSignal ==
    \/ NextSignalMain
    \/ Signal({SIGHUP, SIGINT, SIGTERM})

SpecSignal == InitSignal /\ [][NextSignal]_vars /\ WF_vars(NextSignalMain)

(***************************************************************************)
(* SpecLevels: init() on two controllers, where dev.cpu.0.freq_levels is   *)
(* absent, empty, well-formed, or malformed from some entry on.            *)
(***************************************************************************)
LevelsStrings ==
    {<< >>,
     <<Other>>,
     <<Space>>,
     <<Num(800)>>,
     <<Num(800), Slash, Num(0)>>,
     <<Space, Num(800), Slash, Num(0)>>,
     <<Num(2400), Slash, Other>>,
     <<Num(2400), Slash, Num(0), Space, Other>>,
     <<Num(2400), Slash, Num(0), Space, Num(1600)>>,
     <<Num(2400), Slash, Num(0), Other, Num(1600), Slash, Num(0)>>,
     <<Num(2000000), Slash, Num(0)>>,
     LevelsString(<<2400, 1600, 800>>),
     LevelsString(<<800, 1600, 2400>>),
     LevelsString(<<1600, 800, 2400, 1600>>)}

LevelsKernels ==
    {[ncpu |-> 2, acline |-> FALSE, freq |-> PerCore(<<"ok", f1>>),
      freq_levels |-> PerCore(<<l0, l1>>),
      cp_times |-> PerCore(<<CountersZero, CountersZero>>),
      dev_cpu_freq |-> PerCore(<<800, 1600>>)] :
        l0 \in {NoLevels} \cup {LevelsStr(str) : str \in LevelsStrings},
        l1 \in {NoLevels, Levels(<<1600, 800>>)},
        f1 \in {"ok", "ENOENT"}}

LevelsCmdLines == {<<Opt("CNT_SAMPLES", 2)>>, <<Opt("FLAG_FOREGROUND", 0), Opt("CNT_SAMPLES", 2)>>}

LevelsDeltas == {[c \in Cores |-> p] : p \in {ProfileIdle, ProfileBusy}}

InitLevels == \E k \in LevelsKernels : InitOn(k)

NextLevels ==
    \/ ReadArgs(LevelsCmdLines)
    \/ InitDaemon
    \/ ResetCpTimes(LevelsDeltas, {TRUE})
    \/ ResetCpTimesDone
    \/ PidfileOpen({"ok"})
    \/ FreqGuardProbe({"ok"}, {"EPERM"})
    \/ FreqGuardDone

SpecLevels == InitLevels /\ [][NextLevels]_vars

(***************************************************************************)
(* SpecSysctl: the daemon on kernels whose dev.cpu.0.freq is a value of    *)
(* 2, 4 or 8 bytes.                                                        *)
(***************************************************************************)
SysctlKernels ==
    {[ncpu |-> 2, acline |-> TRUE, freq |-> PerCore(<<"ok", "ENOENT">>),
      freq_levels |-> PerCore(<<Levels(<<2400, 1600, 800>>), NoLevels>>),
      cp_times |-> PerCore(<<CountersZero, CountersZero>>),
      dev_cpu_freq |-> PerCore(<<1600, 0>>),
      freq_size |-> PerCore(<<n, SizeofMhz>>)] : n \in {2, 4, 8}}

SysctlCmdLines == {<<Opt("FLAG_FOREGROUND", 0), Opt("CNT_SAMPLES", 2)>>}

SysctlDeltas == {[c \in Cores |-> p] : p \in {ProfileIdle, ProfileHalf, ProfileBusy}}

InitSysctl == \E k \in SysctlKernels : InitOn(k)

NextSysctl ==
    \/ ReadArgs(SysctlCmdLines)
    \/ InitDaemon
    \/ ResetCpTimes(SysctlDeltas, {TRUE})
    \/ ResetCpTimesDone
    \/ PidfileOpen({"ok"})
    \/ FreqGuardProbe({"ok"}, {"EIO"})
    \/ FreqGuardDone
    \/ Detach({"ok"})
    \/ SetupSighup
    \/ PidfileWrite({"ok"})
    \/ WhileSignal
    \/ SleepUntil
    \/ TickCpTimes(SysctlDeltas, {TRUE})
    \/ TickLoadTimes
    \/ TickAcline({Read(ONLINE)})
    \/ TickCore({"ok", "write_fail"}, {"EIO"})
    \/ TickDone
    \/ FreqGuardRestore({"ok"})
    \/ FreqGuardDestroyed
    \/ PidfileRemove
    \/ MainCatch

SpecSysctl == InitSysctl /\ [][NextSysctl]_vars

(***************************************************************************)
(* SpecMode: the daemon with mode strings of every kind on its command     *)
(* line: predefined names, loads, frequencies, values beyond the ranges,   *)
(* strings that are neither, and NaN.                                      *)
(***************************************************************************)
ModeStrings ==
    {Word("adp"), Word("ADP"), Word("adaptive"), Word("hadp"), Word("hiadaptive"),
     Word("min"), Word("minimum"), Word("Max"), Word("maximum"),
     Milli(0, ""), Milli(1, ""), Milli(500, ""), Milli(1000, ""), Milli(1001, ""),
     Milli(-1, ""), Milli(2000, ""),
     Milli(0, "%"), Milli(50000, "%"), Milli(100000, "%"), Milli(100001, "%"),
     Word("%"),
     Milli(800000, "MHz"), Milli(1200, "GHZ"), Milli(1000, "thz"), Milli(1001, "thz"),
     Milli(-1000, "mhz"), Milli(800000000, "khz"), Milli(1500, "hz"), Word("hz"),
     Word(""), Word("fast"), Word("s"), Milli(500, "s"),
     NaN("", 0), NaN("", 2 ^ 30), NaN("%", 0), NaN("mhz", 2 ^ 30)}

ModeKernels ==
    {[ncpu |-> 1, acline |-> TRUE, freq |-> PerCore(<<"ok">>),
      freq_levels |-> PerCore(<<Levels(<<2400, 1600, 800>>)>>),
      cp_times |-> PerCore(<<CountersZero>>),
      dev_cpu_freq |-> PerCore(<<1600>>)]}

ModeCmdLines ==
    {<<Opt("CNT_SAMPLES", 2), Opt(o, str)>> :
        o \in {"MODE_AC", "MODE_BATT", "MODE_UNKNOWN"}, str \in ModeStrings}
    \cup
    {<<Opt("CNT_SAMPLES", 2), Opt("MODE_AC", first), Opt("MODE_AC", str)>> :
        first \in {Milli(500, ""), Milli(800000, "MHz"), Milli(2000, "")},
        str \in {Word("min"), Milli(250, ""), Milli(1200, "GHZ"), Word("fast")}}

ModeDeltas == {[c \in Cores |-> ProfileHalf]}

InitMode == \E k \in ModeKernels : InitOn(k)

NextMode ==
    \/ ReadArgs(ModeCmdLines)
    \/ InitDaemon
    \/ ResetCpTimes(ModeDeltas, {TRUE})
    \/ ResetCpTimesDone
    \/ PidfileOpen({"ok"})
    \/ FreqGuardProbe({"ok"}, {"EPERM"})
    \/ FreqGuardDone
    \/ Detach({"ok"})
    \/ SetupSighup
    \/ PidfileWrite({"ok"})
    \/ WhileSignal
    \/ SleepUntil
    \/ TickCpTimes(ModeDeltas, {TRUE})
    \/ TickLoadTimes
    \/ TickAcline({Read(ONLINE), Read(BATTERY), ReadFails})
    \/ TickCore({"ok"}, {"EIO"})
    \/ TickDone
    \/ MainCatch

SpecMode == InitMode /\ [][NextMode]_vars

(***************************************************************************)
(* SpecRing: the daemon with 1 to MaxSamples samples on a kernel whose     *)
(* tick counters are a function of the number of samples taken: what the   *)
(* kernel counts between two samples is decided by its counters.           *)
(***************************************************************************)
RingStarts ==
    {PerCore(<<CountersZero, CountersZero>>), PerCore(<<CountersWrap, CountersIdleWrap>>)}

RingKernels ==
    {[ncpu |-> 2, acline |-> TRUE, freq |-> PerCore(<<"ok", "ENOENT">>),
      freq_levels |-> PerCore(<<Levels(<<2400, 1600, 800>>), NoLevels>>),
      cp_times |-> k0,
      dev_cpu_freq |-> PerCore(<<1600, 0>>)] : k0 \in RingStarts}

RingCmdLines ==
    {<<Opt("CNT_SAMPLES", n)>> : n \in 1 .. MaxSamples}
    \cup {<<Opt("FLAG_FOREGROUND", 0), Opt("CNT_SAMPLES", n)>> : n \in 1 .. MaxSamples}

\* what the kernel with the counters k counts until the next sample: the
\* cores are busy, idle and half busy in turn
RingDelta(k) ==
    LET phase == (CpAdd(k[0][0], k[0][CP_IDLE]) \div TickUnit) % 3 IN
    [c \in DOMAIN k |-> IF phase = 0 THEN ProfileBusy
                        ELSE IF phase = 1 THEN ProfileIdle
                        ELSE ProfileHalf]

\* the counters of the kernel that started with k0 at its j-th sample
RECURSIVE History(_, _)
History(k0, j) ==
    IF j = 0 THEN k0
    ELSE Advance(History(k0, j - 1), RingDelta(History(k0, j - 1)))

InitRing == \E k \in RingKernels : InitOn(k)

NextRing ==
    \/ ReadArgs(RingCmdLines)
    \/ InitDaemon
    \/ ResetCpTimes({RingDelta(kern_cp_times)}, {TRUE})
    \/ ResetCpTimesDone
    \/ PidfileOpen({"ok"})
    \/ FreqGuardProbe({"ok"}, {"EPERM"})
    \/ FreqGuardDone
    \/ Detach({"ok"})
    \/ SetupSighup
    \/ PidfileWrite({"ok"})
    \/ WhileSignal
    \/ SleepUntil
    \/ TickCpTimes({RingDelta(kern_cp_times)}, {TRUE})
    \/ TickLoadTimes
    \/ TickAcline({Read(ONLINE)})
    \/ TickCore({"ok"}, {"EIO"})
    \/ TickDone

SpecRing == InitRing /\ [][NextRing]_vars

(***************************************************************************)
(* SpecWant: the daemon with load targets on a kernel whose clock          *)
(* frequency is at the limit of what update_freq() asserts.                *)
(***************************************************************************)
WantFreqs == {1600, Pow2(MhzBits - 10) - 1, Pow2(MhzBits - 10)}

WantKernels ==
    {[ncpu |-> 1, acline |-> TRUE, freq |-> PerCore(<<"ok">>),
      freq_levels |-> PerCore(<<NoLevels>>),
      cp_times |-> PerCore(<<CountersZero>>),
      dev_cpu_freq |-> PerCore(<<f>>)] : f \in WantFreqs}

WantCmdLines ==
    {<<Opt("CNT_SAMPLES", 2), Opt("MODE_AC", str)>> :
        str \in {Milli(4, ""), Milli(333, ""), Milli(500, ""), Milli(1000, ""),
                 Milli(2000000, "mhz")}}

WantDeltas ==
    {[c \in Cores |-> p] : p \in {ProfileIdle, ProfileHalf, ProfileMost, ProfileBusy}}

InitWant == \E k \in WantKernels : InitOn(k)

NextWant ==
    \/ ReadArgs(WantCmdLines)
    \/ InitDaemon
    \/ ResetCpTimes(WantDeltas, {TRUE})
    \/ ResetCpTimesDone
    \/ PidfileOpen({"ok"})
    \/ FreqGuardProbe({"ok"}, {"EPERM"})
    \/ FreqGuardDone
    \/ Detach({"ok"})
    \/ SetupSighup
    \/ PidfileWrite({"ok"})
    \/ WhileSignal
    \/ SleepUntil
    \/ TickCpTimes(WantDeltas, {TRUE})
    \/ TickLoadTimes
    \/ TickAcline({Read(ONLINE)})
    \/ TickCore({"ok"}, {"EIO"})
    \/ TickDone

SpecWant == InitWant /\ [][NextWant]_vars

(***************************************************************************)
(* SpecPid: the daemon and another instance of it on the same kernel.  The *)
(* other instance is seen by what it does to the kernel: it takes the lock *)
(* of the pidfile, writes frequencies while it holds it, and gives it up.  *)
(***************************************************************************)
PidKernels ==
    {[ncpu |-> 2, acline |-> TRUE, freq |-> PerCore(<<"ok", "ENOENT">>),
      freq_levels |-> PerCore(<<Levels(<<2400, 800>>), NoLevels>>),
      cp_times |-> PerCore(<<CountersZero, CountersZero>>),
      dev_cpu_freq |-> PerCore(<<1600, 0>>),
      pidlock |-> lock] : lock \in {"free", "other"}}

PidCmdLines ==
    {<<Opt("CNT_SAMPLES", 2)>>, <<Opt("FLAG_FOREGROUND", 0), Opt("CNT_SAMPLES", 2)>>}

PidDeltas == {[c \in Cores |-> ProfileBusy]}

\* the frequencies the other instance writes
OtherFreqs == {800, 2400}

\* what this process leaves alone when the other instance takes a step
OtherUnchanged ==
    /\ UNCHANGED <<pc, exc, fault, exitcode, signal, delivered, i_loop, kern_cp_times>>
    /\ UNCHANGED <<confVars, bufVars, tickVars, obsVars, objVars>>

\* the other instance constructs its Pidfile
OtherOpen ==
    /\ kern_mib.pidlock = "free"
    /\ pc # "exit"
    /\ kern_mib' = [kern_mib EXCEPT !.pidlock = "other"]
    /\ UNCHANGED dev_cpu_freq
    /\ OtherUnchanged

\* the other instance writes a frequency
OtherWrite ==
    /\ kern_mib.pidlock = "other"
    /\ pc # "exit"
    /\ \E c \in {c \in 0 .. (ncpu - 1) : kern_mib.freq[c] = "ok"}, f \in OtherFreqs :
          /\ dev_cpu_freq[c] # f
          /\ dev_cpu_freq' = [dev_cpu_freq EXCEPT ![c] = f]
    /\ UNCHANGED kern_mib
    /\ OtherUnchanged

\* the other instance removes its pidfile
OtherRemove ==
    /\ kern_mib.pidlock = "other"
    /\ pc # "exit"
    /\ kern_mib' = [kern_mib EXCEPT !.pidlock = "free"]
    /\ UNCHANGED dev_cpu_freq
    /\ OtherUnchanged

InitPid == \E k \in PidKernels : InitOn(k)

NextPid ==
    \/ ReadArgs(PidCmdLines)
    \/ InitDaemon
    \/ ResetCpTimes(PidDeltas, {TRUE})
    \/ ResetCpTimesDone
    \/ PidfileOpen({"ok", "pid_t"})
    \/ FreqGuardProbe({"ok", "write_fail"}, {"EPERM"})
    \/ FreqGuardDone
    \/ Detach({"ok"})
    \/ SetupSighup
    \/ PidfileWrite({"ok", "fail"})
    \/ WhileSignal
    \/ SleepUntil
    \/ TickCpTimes(PidDeltas, {TRUE})
    \/ TickLoadTimes
    \/ TickAcline({Read(ONLINE)})
    \/ TickCore({"ok"}, {"EIO"})
    \/ TickDone
    \/ FreqGuardRestore({"ok"})
    \/ FreqGuardDestroyed
    \/ PidfileRemove
    \/ MainCatch
    \/ MainReturn
    \/ Signal({SIGTERM})
    \/ OtherOpen
    \/ OtherWrite
    \/ OtherRemove

SpecPid == InitPid /\ [][NextPid]_vars

(***************************************************************************)
(* SpecRamp: two controllers under full load in the predefined adaptive    *)
(* modes, on a kernel that takes every write.  The clocks start below, at  *)
(* and above the highest frequency the limits allow; the main thread       *)
(* keeps running.                                                          *)
(***************************************************************************)
RampStarts == {<<800, 1>>, <<1600, 2>>, <<2400, 3>>, <<3200, 4>>, <<800, 6>>}

RampKernels ==
    {[ncpu |-> 2, acline |-> TRUE, freq |-> PerCore(<<"ok", "ok">>),
      freq_levels |-> PerCore(<<Levels(<<2400, 1600, 800>>), Levels(<<4, 2, 1>>)>>),
      cp_times |-> PerCore(<<CountersZero, CountersWrap>>),
      dev_cpu_freq |-> PerCore(start)] : start \in RampStarts}

RampCmdLines ==
    {<<Opt("CNT_SAMPLES", 2)>>,
     <<Opt("FREQ_MAX", 1600), Opt("FREQ_MIN", 2), Opt("CNT_SAMPLES", 2)>>,
     <<Opt("MODE_AC", Word("adp")), Opt("MODE_BATT", Word("hadp")),
       Opt("FREQ_MIN", 1000), Opt("CNT_SAMPLES", 2)>>}

RampDeltas == {[c \in Cores |-> ProfileBusy]}

RampReads == {Read(BATTERY), Read(ONLINE), ReadFails}

InitRamp == \E k \in RampKernels : InitOn(k)

NextRamp ==
    \/ ReadArgs(RampCmdLines)
    \/ InitDaemon
    \/ ResetCpTimes(RampDeltas, {TRUE})
    \/ ResetCpTimesDone
    \/ PidfileOpen({"ok"})
    \/ FreqGuardProbe({"ok"}, {"EPERM"})
    \/ FreqGuardDone
    \/ Detach({"ok"})
    \/ SetupSighup
    \/ PidfileWrite({"ok"})
    \/ WhileSignal
    \/ SleepUntil
    \/ TickCpTimes(RampDeltas, {TRUE})
    \/ TickLoadTimes
    \/ TickAcline(RampReads)
    \/ TickCore({"ok"}, {"EIO"})
    \/ TickDone

SpecRamp == InitRamp /\ [][NextRamp]_vars /\ WF_vars(NextRamp)

(***************************************************************************)
(* Properties.                                                             *)
(***************************************************************************)
\* the loads in g.cores are those of a sample taken by a main loop iteration
LoadsOfTick ==
    \/ pc \in {"update_load_times", "acline", "update_freq"}
    \/ pc = "while" /\ ticks >= 1

\* update_load_times() of the current main loop iteration has returned
LoadsCoalesced ==
    \/ pc \in {"acline", "update_freq"}
    \/ pc = "while" /\ ticks >= 1

\* the slot of the ring buffer that holds the newest sample of core c, and
\* the one the newest sample was compared with
NewestSlot(c) == ((sample + samples - 1) % samples) * ncpu + c
OldestSlot(c) == sample * ncpu + c

\* C2: after every update_cp_times() of the main loop (the ring buffer is
\* primed then) the load of every core is in [0, 1024], also when tick
\* counters wrapped around between the oldest and the newest sample.
C2_LoadInRange ==
    LoadsOfTick =>
        \A c \in Cores : /\ 0 <= raw_load[c] /\ raw_load[c] <= 1024
                         /\ 0 <= cores[c].load /\ cores[c].load <= 1024

\* C2, witness: a core is fully loaded over a window in which one of its
\* tick counters wrapped around.
C2_Witness ==
    /\ LoadsOfTick
    /\ \E c \in Cores :
          /\ raw_load[c] = 1024
          /\ \E s \in States : cp_times[NewestSlot(c)][s] < cp_times[OldestSlot(c)][s]

\* C3: after update_load_times() the load of a follower's controller is at
\* least the follower's load, and the controller's frequency is decided
\* with that load.
C3_ControllerLoad ==
    LoadsCoalesced =>
        /\ \A f \in Cores :
              cores[f].controller # f => cores[cores[f].controller].load >= cores[f].load
        /\ \A f \in Cores : \A c \in DOMAIN decided :
              cores[f].controller = c => decided[c].load >= raw_load[f]

\* C3, witness: a controller decided with the load of its second follower,
\* which is above its own load and above that of its first follower.
C3_Witness ==
    /\ LoadsCoalesced
    /\ \E c \in DOMAIN decided : \E f \in Cores :
          /\ f > c + 1
          /\ cores[f].controller = c
          /\ raw_load[f] > raw_load[c]
          /\ raw_load[f] > raw_load[c + 1]
          /\ decided[c].load = raw_load[f]


\* update_freq() of the current main loop iteration is in its loop over the
\* cores, or has returned
InDecisions ==
    \/ pc = "update_freq"
    \/ pc = "while" /\ ticks >= 1

\* clamp(x, lo, hi) of the specification
Clamp(x, lo, hi) == IF x < lo THEN (IF lo < hi THEN lo ELSE hi) ELSE IF x > hi THEN hi ELSE x

\* the limits of controller c under policy P
Lo(c, P) == IF cores[c].min >= P.freq_min THEN cores[c].min ELSE P.freq_min
Hi(c, P) == IF cores[c].max <= P.freq_max THEN cores[c].max ELSE P.freq_max

\* C1, as claimed: the frequency a controller ends the tick with is within
\* its hardware limits, and within the limits of the policy P in use if
\* P.freq_min <= P.freq_max.
C1_FinalFreqWithinLimits ==
    InDecisions =>
        \A c \in DOMAIN decided :
            LET P == decided[c].st
                final == dev_cpu_freq[c]
            IN /\ cores[c].min <= final /\ final <= cores[c].max
               /\ P.freq_min <= P.freq_max =>
                     (P.freq_min <= final /\ final <= P.freq_max)

\* C1, amended: the frequency a controller ends the tick with is within its
\* hardware limits and within the limits of the policy P in use if
\* lo = max(hw_min, P.freq_min) <= hi = min(hw_max, P.freq_max); if lo > hi
\* it is hi.
C1_FinalFreqWithinJointLimits ==
    InDecisions =>
        \A c \in DOMAIN decided :
            LET P == decided[c].st
                final == dev_cpu_freq[c]
            IN IF Lo(c, P) <= Hi(c, P)
               THEN /\ cores[c].min <= final /\ final <= cores[c].max
                    /\ P.freq_min <= final /\ final <= P.freq_max
               ELSE final = Hi(c, P)

\* C1, witness: a controller wanted more than its limits allow and was
\* written the upper limit, and the other controller's limits exclude each
\* other.
C1_Witness ==
    /\ InDecisions
    /\ \E c, d \in DOMAIN decided :
          /\ Lo(c, decided[c].st) < Hi(c, decided[c].st)
          /\ decided[c].want > Hi(c, decided[c].st)
          /\ freq_writes[c] = 1
          /\ dev_cpu_freq[c] = Hi(c, decided[c].st)
          /\ Lo(d, decided[d].st) > Hi(d, decided[d].st)

\* C4: a controller under a policy with target_load > 0 wants
\* floor(old * load / target_load) and gets that clamped to its limits; the
\* new frequency is written if and only if it differs from the old one; a
\* controller's frequency is read once and written at most once per tick.
C4_AdaptiveDecision ==
    InDecisions =>
        /\ \A c \in DOMAIN decided :
              LET d == decided[c]
                  P == d.st
              IN P.target_load > 0 =>
                 /\ d.want * P.target_load <= d.old * cores[c].load
                 /\ d.old * cores[c].load < (d.want + 1) * P.target_load
                 /\ d.new = Clamp(d.want, Lo(c, P), Hi(c, P))
                 /\ freq_writes[c] = (IF d.new # d.old THEN 1 ELSE 0)
                 /\ dev_cpu_freq[c] = d.new
                 /\ freq_reads[c] = 1
        /\ \A c \in Cores \ DOMAIN decided : freq_reads[c] = 0 /\ freq_writes[c] = 0
        /\ pc = "while" => DOMAIN decided = Controllers

\* C4, witness: the load equals the target load, the old frequency is within
\* the limits and nothing is written, while the other controller is written.
C4_Witness ==
    /\ pc = "while"
    /\ ticks >= 1
    /\ \E c, e \in DOMAIN decided :
          /\ decided[c].st.target_load > 0
          /\ cores[c].load = decided[c].st.target_load
          /\ Lo(c, decided[c].st) <= decided[c].old
          /\ decided[c].old <= Hi(c, decided[c].st)
          /\ freq_writes[c] = 0
          /\ freq_writes[e] = 1

\* C5: under a policy with target_load = 0 the new frequency of a controller
\* is target_freq clamped to its limits, whatever its load and its old
\* frequency are.
C5_FixedDecision ==
    InDecisions =>
        \A c \in DOMAIN decided :
            LET P == decided[c].st IN
            P.target_load = 0 =>
                /\ decided[c].new = Clamp(P.target_freq, Lo(c, P), Hi(c, P))
                /\ dev_cpu_freq[c] = Clamp(P.target_freq, Lo(c, P), Hi(c, P))

\* C5, witness: a loaded controller in fixed frequency mode is written a
\* target frequency within its limits that differs from its old frequency.
C5_Witness ==
    /\ InDecisions
    /\ \E c \in DOMAIN decided :
          /\ decided[c].st.target_load = 0
          /\ cores[c].load > 0
          /\ decided[c].new = decided[c].st.target_freq
          /\ decided[c].new # decided[c].old
          /\ freq_writes[c] = 1

\* C6, as claimed: the index into g.acstates is the AC line value the kernel
\* returned if that is 0 or 1, and 2 (unknown) for every other value; it is
\* always one of 0, 1, 2.
C6_AclineIndexMapped ==
    /\ acline \in {BATTERY, ONLINE, UNKNOWN}
    /\ acline_read.ok =>
          acline = (IF acline_read.val \in {BATTERY, ONLINE}
                    THEN acline_read.val ELSE UNKNOWN)

\* C7: a tick in which the AC line cannot be read, or was never resolved,
\* uses the unknown policy, raises no error, and decides for every
\* controller.
C7_AclineFallback ==
    (InDecisions /\ ~acline_read.ok) =>
        /\ acline = UNKNOWN
        /\ acstate = acstates[UNKNOWN]
        /\ exc = "none"
        /\ exitcode = "running"
        /\ \A c \in DOMAIN decided : decided[c].st = acstates[UNKNOWN]
        /\ pc = "while" => DOMAIN decided = Controllers

\* C7, witness: a tick with two controllers ended, in which the read of
\* the resolved AC line failed.
C7_Witness ==
    /\ pc = "while"
    /\ ticks >= 1
    /\ acline_ctl
    /\ ~acline_read.ok
    /\ Cardinality(DOMAIN decided) = 2


\* the positions of the main thread within update_freq()
TickPcs == {"update_cp_times", "update_load_times", "acline", "update_freq"}

\* the positions of the main thread within the main loop
LoopPcs == TickPcs \cup {"while", "sleep_until"}

\* every controller got its decision, and its write if the frequency changes
TickComplete ==
    /\ DOMAIN decided = Controllers
    /\ \A c \in DOMAIN decided :
          freq_writes[c] = (IF decided[c].new # decided[c].old THEN 1 ELSE 0)

\* C8: with g.signal set at most one more main loop iteration is started;
\* an iteration is only left when update_freq() has returned or thrown, never
\* because of a signal; the main loop is only left from its condition, with
\* the signal set; and once the signal is set the main loop is left.
C8_CooperativeCancel ==
    /\ [](late_ticks <= 1)
    /\ []((pc = "~FreqGuard" /\ exc = "none") => (signal # 0 /\ (ticks >= 1 => TickComplete)))
    /\ [][(pc \in TickPcs /\ pc' \notin TickPcs) =>
             \/ pc = "update_freq" /\ pc' = "while" /\ TickComplete'
             \/ exc' # "none"]_vars
    /\ [][(pc \in LoopPcs /\ pc' \notin LoopPcs /\ exc' = "none") => pc = "while"]_vars
    /\ ((signal # 0 /\ pc \in LoopPcs) ~> (pc \notin LoopPcs))

\* C8, witness: the signal arrived before update_freq() was called; that
\* iteration wrote a frequency and ended, and the main loop was left.
C8_Witness ==
    /\ pc = "~FreqGuard"
    /\ exc = "none"
    /\ signal # 0
    /\ late_ticks = 1
    /\ \E c \in DOMAIN decided : freq_writes[c] = 1

\* the controllers from core c on, in core order
RECURSIVE ControllerSeq(_)
ControllerSeq(c) ==
    IF c >= ncpu THEN << >>
    ELSE (IF cores[c].controller = c THEN <<c>> ELSE << >>) \o ControllerSeq(c + 1)

\* ~FreqGuard() attempted to write its maximum to every controller, in core
\* order
RestoreAttempted ==
    /\ [i \in 1 .. Len(restore_log) |-> restore_log[i].core] = ControllerSeq(0)
    /\ \A i \in 1 .. Len(restore_log) :
          restore_log[i].freq = cores[restore_log[i].core].max

\* C9: when the FreqGuard is destroyed a write of its maximum is attempted
\* for every controller, in core order, whether or not earlier writes were
\* refused, and nothing is thrown out of the destructor.
C9_RestoreSwallowsErrors ==
    /\ [](fguard = "destroyed" => RestoreAttempted)
    /\ [][pc = "~FreqGuard" =>
             /\ exc' = exc
             /\ exitcode' = exitcode
             /\ pc' \in {"~FreqGuard", "~Pidfile"}]_vars

\* C9, witness: the write for the first of two controllers was refused and
\* the write for the second one was made.
C9_Witness ==
    /\ fguard = "destroyed"
    /\ Len(restore_log) = 2
    /\ ~restore_log[1].ok
    /\ restore_log[2].ok
    /\ dev_cpu_freq[restore_log[2].core] = cores[restore_log[2].core].max

\* run_daemon() was left, by return or by an exception
LeftRunDaemon == pc \in {"return", "catch", "exit"}

\* C10: whenever run_daemon() is left after its FreqGuard was constructed,
\* the restore of every controller was attempted and the pidfile was
\* removed.
C10_ReleaseOnEveryPath ==
    (LeftRunDaemon /\ fguard # "none") =>
        /\ fguard = "destroyed"
        /\ RestoreAttempted
        /\ pidfile = "removed"

\* C10, witness: the process ended by a sysctl failure within a main loop
\* iteration, after the restore of two controllers and the removal of the
\* pidfile.
C10_Witness ==
    /\ pc = "exit"
    /\ ticks >= 1
    /\ exitcode \in {"ESYSCTL", "SIGABRT"}
    /\ fguard = "destroyed"
    /\ pidfile = "removed"
    /\ Len(restore_log) = 2


\* every controller was read once and written once, and no other core was
ProbedAll ==
    \A c \in Cores :
        /\ freq_reads[c] = (IF c \in Controllers THEN 1 ELSE 0)
        /\ freq_writes[c] = (IF c \in Controllers THEN 1 ELSE 0)

\* C11: FreqGuard() reads every controller's frequency once and writes the
\* value it read; if the kernel refuses a read or a write with EPERM the
\* process ends with EFORBIDDEN, with any other errno it ends with ESYSCTL;
\* in both cases no main loop iteration was started.
C11_GuardProbe ==
    /\ [][pc = "FreqGuard" => dev_cpu_freq' = dev_cpu_freq]_vars
    /\ []((pc = "daemon" /\ ticks = 0) => ProbedAll)
    /\ [](fault.at = "FreqGuard" =>
             /\ exc = (IF fault.errno = "EPERM" THEN "EFORBIDDEN" ELSE "ESYSCTL")
             /\ ticks = 0
             /\ pc \in {"~Pidfile", "catch", "exit"}
             /\ pc = "exit" => exitcode = exc)

\* C11, witness: the kernel refused the write of the second controller with
\* EPERM, after the first one was read and written, and the process ended
\* with EFORBIDDEN.
C11_Witness ==
    /\ pc = "exit"
    /\ exitcode = "EFORBIDDEN"
    /\ fault = [at |-> "FreqGuard", op |-> "write", errno |-> "EPERM"]
    /\ Cardinality(Controllers) = 2
    /\ \A c \in Controllers : freq_reads[c] = 1 /\ freq_writes[c] = 1

\* C12, as claimed: when the kernel refuses a read or a write of
\* dev.cpu.N.freq within a main loop iteration, the process ends with the
\* exit code ESYSCTL.
C12_TickFailureIsSysctlFail ==
    (pc = "exit" /\ fault.at = "update_freq") => exitcode = "ESYSCTL"

\* the positions of run_daemon() from the call of daemon() on
FromDetachPcs == {"daemon", "signal", "pidfile.write"} \cup LoopPcs

\* C19: run_daemon() calls daemon() only after FreqGuard() has read and
\* written every controller without a refusal; a refusal in FreqGuard() is
\* never followed by the call of daemon().
C19_DetachAfterProbe ==
    /\ []((pc = "daemon") => (fguard = "alive" /\ fault = NoFault /\ ProbedAll))
    /\ [](pc \in FromDetachPcs => fguard = "alive")
    /\ [](fault.at = "FreqGuard" => (fguard = "none" /\ pc \notin FromDetachPcs))
    /\ [][(pc' = "daemon" /\ pc # "daemon") => pc = "FreqGuard"]_vars

\* C19, witness: the daemon has detached, after FreqGuard() has read and
\* written two controllers.
C19_Witness ==
    /\ pc = "signal"
    /\ ~foreground
    /\ fguard = "alive"
    /\ Cardinality(Controllers) = 2
    /\ ProbedAll


\* init() has returned
InitReturned == DOMAIN cores # {}

\* C13: after init() a core whose dev.cpu.N.freq resolves is its own
\* controller, a core without it has the controller of the core before it;
\* so core 0 is its own controller, no controller is above its core, every
\* controller controls itself, and a group is a run of consecutive cores.  If
\* core 0 has no dev.cpu.0.freq the process ends with ENOFREQ.
C13_Topology ==
    /\ InitReturned =>
          /\ \A i \in Cores :
                /\ kern_mib.freq[i] \in {"ok", "ENOENT"}
                /\ kern_mib.freq[i] = "ok" => cores[i].controller = i
                /\ (kern_mib.freq[i] = "ENOENT" /\ i > 0) =>
                      cores[i].controller = cores[i - 1].controller
                /\ cores[i].controller \in 0 .. i
                /\ cores[cores[i].controller].controller = cores[i].controller
                /\ \A j \in cores[i].controller .. i :
                      cores[j].controller = cores[i].controller
          /\ cores[0].controller = 0
    /\ (kern_mib.freq[0] = "ENOENT" /\ pc \notin {"read_args", "init"}) =>
          /\ ~InitReturned
          /\ exc = "ENOFREQ"
          /\ pc = "exit" => exitcode = "ENOFREQ"

\* C13, witness: init() returned with core 0 and core 1 as controllers, and
\* core 2 as the follower of core 1.
C13_Witness ==
    /\ InitReturned
    /\ kern_mib.freq[2] = "ENOENT"
    /\ cores[0].controller = 0
    /\ cores[1].controller = 1
    /\ cores[2].controller = 1

\* C14, as claimed: a sample count of 1 on the command line ends the process
\* with EOUTOFRANGE, and the main loop never runs with g.samples < 2.
C14_OneSampleRejected ==
    /\ pc \in LoopPcs => samples >= 2
    /\ (pc # "read_args" /\ \E i \in DOMAIN argv : argv[i] = Opt("CNT_SAMPLES", 1)) =>
          exc = "EOUTOFRANGE"


\* the argument of the last option opt of the command line args, d if there
\* is none
RECURSIVE Configured(_, _, _)
Configured(args, opt, d) ==
    IF args = << >> THEN d
    ELSE Configured(Tail(args), opt, IF Head(args).opt = opt THEN Head(args).arg ELSE d)

\* the options that set freq_min and freq_max of a line state
MinOpt == (BATTERY :> "FREQ_MIN_BATT") @@ (ONLINE :> "FREQ_MIN_AC") @@ (UNKNOWN :> "FREQ_MIN")
MaxOpt == (BATTERY :> "FREQ_MAX_BATT") @@ (ONLINE :> "FREQ_MAX_AC") @@ (UNKNOWN :> "FREQ_MAX")

\* C20: freq_min and freq_max of the unknown line state are never
\* FREQ_UNSET; after init() no line state has an unset freq_min or freq_max:
\* a boundary given on the command line has the value given last, one not
\* given has the value of the unknown line state, whose own default is
\* [FREQ_DEFAULT_MIN, FREQ_DEFAULT_MAX].
C20_BoundariesBackfilled ==
    /\ acstates[UNKNOWN].freq_min # FREQ_UNSET
    /\ acstates[UNKNOWN].freq_max # FREQ_UNSET
    /\ InitReturned =>
          \A l \in {BATTERY, ONLINE, UNKNOWN} :
              LET cmin == Configured(argv, MinOpt[l], -1)
                  cmax == Configured(argv, MaxOpt[l], -1)
                  dmin == IF l = UNKNOWN THEN FREQ_DEFAULT_MIN ELSE acstates[UNKNOWN].freq_min
                  dmax == IF l = UNKNOWN THEN FREQ_DEFAULT_MAX ELSE acstates[UNKNOWN].freq_max
              IN /\ acstates[l].freq_min # FREQ_UNSET
                 /\ acstates[l].freq_max # FREQ_UNSET
                 /\ acstates[l].freq_min = (IF cmin # -1 THEN cmin ELSE dmin)
                 /\ acstates[l].freq_max = (IF cmax # -1 THEN cmax ELSE dmax)

\* C20, witness: after init() the online line state has the freq_max given
\* for it, and the battery line state, for which nothing was given, has the
\* freq_min given for the unknown line state and the default freq_max.
C20_Witness ==
    /\ InitReturned
    /\ Configured(argv, "FREQ_MAX_AC", -1) = 2000
    /\ acstates[ONLINE].freq_max = 2000
    /\ Configured(argv, "FREQ_MIN_BATT", -1) = -1
    /\ Configured(argv, "FREQ_MIN", -1) = 1000
    /\ acstates[BATTERY].freq_min = 1000
    /\ acstates[BATTERY].freq_max = FREQ_DEFAULT_MAX


\* the slot of the ring buffer with the sample of core c taken k reads
\* before the newest one
SlotBack(c, k) == ((sample + 2 * samples - 1 - k) % samples) * ncpu + c

\* the two newest samples of every core hold the same tick counters
StoodStill == \A c \in Cores : cp_times[SlotBack(c, 0)] = cp_times[SlotBack(c, 1)]

\* the newest and the oldest sample of every core hold the same tick counters
WindowStoodStill == \A c \in Cores : cp_times[NewestSlot(c)] = cp_times[OldestSlot(c)]

\* C15, as claimed: if the samples of two consecutive main loop iterations
\* hold the same tick counters, the second one computes the load 0 for
\* every core and writes no frequency.
C15_StillMeansNoWrite ==
    (LoadsOfTick /\ ticks >= 2 /\ StoodStill) =>
        /\ \A c \in Cores : raw_load[c] = 0
        /\ \A c \in Cores : freq_writes[c] = 0

\* C15, amended: if the newest sample of a main loop iteration holds the
\* same tick counters as the oldest sample of the ring buffer, the load of
\* every core is 0; a controller under a policy with target_load > 0 then
\* wants the frequency 0, gets the lower limit of the clamp, and is written
\* if and only if that differs from its old frequency.
C15_StillWindowMeansIdle ==
    (LoadsOfTick /\ WindowStoodStill) =>
        /\ \A c \in Cores : raw_load[c] = 0 /\ cores[c].load = 0
        /\ \A c \in DOMAIN decided :
              LET d == decided[c] IN
              d.st.target_load > 0 =>
                 /\ d.want = 0
                 /\ d.new = Clamp(0, Lo(c, d.st), Hi(c, d.st))
                 /\ freq_writes[c] = (IF d.new # d.old THEN 1 ELSE 0)

\* C15, witness: the second main loop iteration found the tick counters of
\* the first one, with a ring buffer of two samples, and wrote the lower
\* limit to a controller.
C15_Witness ==
    /\ pc = "while"
    /\ ticks = 2
    /\ samples = 2
    /\ StoodStill
    /\ \E c \in DOMAIN decided :
          /\ decided[c].new = Lo(c, decided[c].st)
          /\ decided[c].new < decided[c].old
          /\ freq_writes[c] = 1

\* the increments of the tick counters of core c between its two newest
\* samples
LastIncrement(c) ==
    [s \in States |-> CpSub(cp_times[SlotBack(c, 0)][s], cp_times[SlotBack(c, 1)][s])]

\* the tick counters of core c advanced by the same increments between all
\* samples of the ring buffer
Uniform(c) ==
    \A k \in 0 .. (samples - 2) : \A s \in States :
        CpSub(cp_times[SlotBack(c, k)][s], cp_times[SlotBack(c, k + 1)][s]) = LastIncrement(c)[s]

\* the sum of the increments inc over the first n states
RECURSIVE Total(_, _)
Total(inc, n) == IF n = 0 THEN 0 ELSE Total(inc, n - 1) + inc[n - 1]

\* the load of a core whose counters advance by inc: the share of the ticks
\* that are not idle, in 1024ths
WindowAverage(inc) ==
    LET total == Total(inc, CPUSTATES) IN
    IF total = 0 THEN 0 ELSE (1024 * (total - inc[CP_IDLE])) \div total

\* C16: when the tick counters of a core advanced by the same increments
\* between all samples of the ring buffer, as they have after g.samples or
\* more main loop iterations with the same increments, the load of the core
\* is floor(1024 * (total - idle) / total) of these increments, in this and
\* in every later such iteration.
C16_LoadIsWindowAverage ==
    (LoadsOfTick /\ samples >= 2) =>
        \A c \in Cores : Uniform(c) => raw_load[c] = WindowAverage(LastIncrement(c))

\* C16, witness: the tick counters of every core started at zero and
\* advanced by the same increments in every read, g.samples or more main
\* loop iterations have run, and the load is the average of the increments,
\* which is neither 0 nor 1024.
C16_Witness ==
    /\ pc = "while"
    /\ ticks >= samples
    /\ \A c \in Cores :
          /\ \A s \in States :
                kern_cp_times[c][s] = (samples - 1 + ticks) * ProfileMost[s]
          /\ Uniform(c)
          /\ raw_load[c] = WindowAverage(ProfileMost)
          /\ raw_load[c] \in 1 .. 1023


\* C17, as claimed: once g.signal is not 0 it keeps its value, whatever
\* signals are delivered.
C17_SignalWrittenOnce == [][signal # 0 => signal' = signal]_vars

\* C17, amended: g.signal only changes when a signal with the handler
\* signal_recv is delivered, to the number of that signal; so it never
\* returns to 0 and holds the number of the last such signal, also when it
\* was set before.
C17_SignalHoldsLast ==
    /\ [][signal' # signal =>
             /\ delivered'.was = signal
             /\ signal' = delivered'.sig
             /\ signal' \in {SIGHUP, SIGINT, SIGTERM}
             /\ Disposition(signal', sighup) = "signal_recv"]_vars
    /\ [][signal # 0 => signal' # 0]_vars
    /\ []((delivered.sig # 0 /\ Disposition(delivered.sig, sighup) = "signal_recv") =>
             signal = delivered.sig)

\* C17, witness: SIGTERM was delivered when g.signal was SIGINT, and
\* g.signal is SIGTERM.
C17_Witness ==
    /\ delivered = [sig |-> SIGTERM, was |-> SIGINT]
    /\ signal = SIGTERM

\* the positions of run_daemon() after daemon() has returned
DetachedPcs == {"signal", "pidfile.write"} \cup LoopPcs

\* the process was ended by a SIGHUP delivered at a position in Pcs
KilledAt(Pcs) == exitcode = "SIGHUP" /\ fault.at \in Pcs

\* the daemon has detached from its terminal, or was ended after that
Detached(Pcs) == ~foreground /\ (pc \in Pcs \/ KilledAt(Pcs))

\* C18, as claimed: in daemon mode a SIGHUP delivered to the detached daemon
\* never sets g.signal and never ends the process.
C18_DaemonIgnoresSighup ==
    Detached(DetachedPcs) => (signal # SIGHUP /\ exitcode # "SIGHUP")

\* init() is over: it has returned, has thrown, or the process was aborted
InitOver == pc \notin {"read_args", "init"}

\* core c is a controller whose dev.cpu.c.freq_levels is absent or empty
NoLevelsList(c) ==
    /\ c \in Controllers
    /\ ~kern_mib.freq_levels[c].present \/ kern_mib.freq_levels[c].str = << >>

\* C21, as claimed: a controller whose freq_levels list is absent or empty
\* has the default bounds 0 and 1000000 after init(), and init() does not
\* end the process because of it.
C21_NoLevelsKeepsDefaults ==
    InitOver =>
        \A c \in DOMAIN cores :
            NoLevelsList(c) =>
                /\ cores[c].min = FREQ_DEFAULT_MIN
                /\ cores[c].max = FREQ_DEFAULT_MAX
                /\ ~(fault.op = "assert" /\
                     c \in InitAssertFails(kern_mib.freq, kern_mib.freq_levels))

\* C22, as claimed: after init() every controller has min <= max, whatever
\* its freq_levels string is, and the assertion of init() never fails.
C22_HwBoundsOrdered ==
    InitOver =>
        /\ fault.op # "assert"
        /\ \A c \in DOMAIN cores : cores[c].controller = c => cores[c].min <= cores[c].max


\* C24, as claimed: a typed read of core.freq only succeeds when the
\* kernel's value has exactly sizeof(mhz_t) bytes: the FreqGuard has only
\* read, and a tick has only decided on, a controller with such a value.
C24_TypedReadIsWidthChecked ==
    \A c \in DOMAIN freq_reads :
        (freq_writes[c] > 0 \/ c \in DOMAIN decided) => kern_mib.freq_size[c] = SizeofMhz


\* the line state a mode option sets
ModeLine == [MODE_AC |-> ONLINE, MODE_BATT |-> BATTERY, MODE_UNKNOWN |-> UNKNOWN]

\* read_args() has returned
ArgsRead == pc # "read_args" /\ fault.op # "read_args"

\* C25, as claimed: every line state has 0 <= target_load <= 1024, a load
\* target that was parsed from a mode string is at least 1, so target_load is
\* 0 only for a mode that sets a frequency, no tick is ended by the assertion
\* of the load target, and a tick only divides by a target_load that is not 0.
C25_LoadTargetInRange ==
    /\ \A l \in DOMAIN acstates :
          /\ acstates[l].target_load >= 0
          /\ acstates[l].target_load <= 1024
    /\ ArgsRead =>
          \A i \in DOMAIN argv :
              LET o == argv[i] IN
              (/\ o.opt \in DOMAIN ModeLine
               /\ \A j \in (i + 1) .. Len(argv) : argv[j].opt # o.opt
               /\ ~IsPredefined(o.arg)
               /\ clas_load(o.arg).err = "none")
                  => acstates[ModeLine[o.opt]].target_load >= 1
    /\ fault.op # "assert"
    /\ \A c \in DOMAIN decided :
          decided[c].st.target_load = 0 => decided[c].want = decided[c].st.target_freq

\* C26: set_mode() gives a predefined name its mode; any other string is a
\* load if clas::load() accepts it, ends read_args() with EOUTOFRANGE if
\* clas::load() finds it out of range, and else is a frequency if clas::freq()
\* accepts it, ends read_args() with EOUTOFRANGE if clas::freq() finds it out
\* of range, and with EMODE if neither recognises it.  On success one of
\* target_load and target_freq of the line state has the value of the string
\* and the other is 0, and the other line states are as they were.
C26_ModeResolution ==
    (pc # "read_args" /\ Len(argv) >= 2 /\ argv[Len(argv)].opt \in DOMAIN ModeLine) =>
        LET o == argv[Len(argv)]
            line == ModeLine[o.opt]
            before == read_args_loop(Settings(DefaultAcstates, FALSE, DefaultSamples),
                                     SubSeq(argv, 1, Len(argv) - 1))
            l == clas_load(o.arg)
            f == clas_freq_of(o.arg)
            name == tolower(o.arg.rest)
            Set(load, freq) ==
                /\ exc = "none"
                /\ acstates[line].target_load = load
                /\ acstates[line].target_freq = freq
                /\ \A other \in DOMAIN acstates \ {line} :
                      /\ acstates[other].target_load = before.acstates[other].target_load
                      /\ acstates[other].target_freq = before.acstates[other].target_freq
            Fails(e) == exc = e /\ fault.op = "read_args"
        IN before.err = "none" =>
              IF o.arg.num = "none" /\ name \in {"minimum", "min"} THEN Set(0, FREQ_DEFAULT_MIN)
              ELSE IF o.arg.num = "none" /\ name \in {"maximum", "max"} THEN Set(0, FREQ_DEFAULT_MAX)
              ELSE IF o.arg.num = "none" /\ name \in {"adaptive", "adp"} THEN Set(ADP, 0)
              ELSE IF o.arg.num = "none" /\ name \in {"hiadaptive", "hadp"} THEN Set(HADP, 0)
              ELSE IF l.err = "none" THEN Set(l.val, 0)
              ELSE IF l.err = "EOUTOFRANGE" THEN Fails("EOUTOFRANGE")
              ELSE IF f.err = "none" THEN Set(0, f.val)
              ELSE IF f.err = "EOUTOFRANGE" THEN Fails("EOUTOFRANGE")
              ELSE Fails("EMODE")

\* C26, witness: "1.2GHZ" was given for the AC line after "0.5": the load
\* parser did not recognise it, the mode is 1200 MHz and the load target 0.
C26_Witness ==
    /\ pc = "init"
    /\ argv = <<Opt("CNT_SAMPLES", 2), Opt("MODE_AC", Milli(500, "")),
                Opt("MODE_AC", Milli(1200, "GHZ"))>>
    /\ acstates[ONLINE].target_freq = 1200
    /\ acstates[ONLINE].target_load = 0
    /\ acstates[BATTERY].target_load = ADP


\* C23: within a tick the main thread samples kern.cp_times into the ring
\* buffer and computes the loads, then coalesces the loads, then reads the AC
\* line state, then reads, decides and writes controller by controller: the
\* positions follow in this order, the ring buffer and the loads only change
\* in the first two, the AC line state only in the third, frequencies are
\* only read and written in the last, and what a controller's decision used
\* is the load and the line state the tick has now.
C23_TickOrder ==
    /\ [][(pc = "sleep_until" /\ pc' # pc) => pc' = "update_cp_times"]_vars
    /\ [][(pc = "update_cp_times" /\ pc' # pc) =>
             \/ pc' = "update_load_times" /\ cp_times' # cp_times /\ sample' # sample
             \/ exc' # "none"]_vars
    /\ [][(pc = "update_load_times" /\ pc' # pc) => pc' = "acline"]_vars
    /\ [][(pc = "acline" /\ pc' # pc) => pc' \in {"update_freq", "exit"}]_vars
    /\ [][(pc = "update_freq" /\ pc' # pc) => (pc' = "while" \/ exc' # "none")]_vars
    /\ [][(pc \in LoopPcs /\ (cp_times' # cp_times \/ sample' # sample)) =>
             pc = "update_cp_times"]_vars
    /\ [][(pc \in LoopPcs /\ cores' # cores) =>
             pc \in {"update_cp_times", "update_load_times"}]_vars
    /\ [][(pc \in TickPcs /\ (acline_read' # acline_read \/ acstate' # acstate
                              \/ acline' # acline)) => pc = "acline"]_vars
    /\ [][(pc \in LoopPcs /\ (dev_cpu_freq' # dev_cpu_freq \/ freq_writes' # freq_writes
                             \/ decided' # decided) /\ pc # "sleep_until") =>
             pc = "update_freq"]_vars
    /\ [][(pc = "update_freq" /\ decided' # decided) =>
             \E c \in Controllers :
                 /\ DOMAIN decided = {d \in Controllers : d < c}
                 /\ DOMAIN decided' = {d \in Controllers : d <= c}
                 /\ freq_reads'[c] = 1
                 /\ decided'[c].old = dev_cpu_freq[c]
                 /\ decided'[c].load = cores[c].load
                 /\ decided'[c].st = acstate
                 /\ (dev_cpu_freq'[c] = decided'[c].new \/ exc' # "none")]_vars
    /\ [](\A c \in DOMAIN freq_writes : freq_writes[c] <= freq_reads[c])

\* C23, witness: a tick on two controllers has ended in which the AC line
\* state was read and both frequencies were read, and one was written.
C23_Witness ==
    /\ pc = "while"
    /\ ticks = 1
    /\ acline_read.ok
    /\ DOMAIN decided = {0, 1}
    /\ freq_reads = (0 :> 1) @@ (1 :> 1)
    /\ freq_writes[0] = 1
    /\ freq_writes[1] = 0


\* the most samples a run takes
MaxTaken == MaxSamples + MaxTicks

\* the counters of all cores in slot i of the ring buffer
SlotOf(buf, i) == [c \in Cores |-> buf[i * ncpu + c]]

\* the kernel started with k0 and j samples were taken
Taken(k0, j) == kern_cp_times = History(k0, j)

\* C27: g.sample is in [0, samples); a sample overwrites the slot at g.sample
\* with the counters of all cores and leaves the other slots as they are,
\* and g.sample advances by one modulo samples; the load a main loop
\* iteration computes is that of the slot just written and the slot at
\* g.sample after the advance, which holds the sample taken samples - 1
\* samples before.
C27_RingIndexing ==
    /\ [](pc # "read_args" => (sample >= 0 /\ sample < samples))
    /\ [][(cp_times' # cp_times /\ pc # "init") =>
             /\ pc \in {"reset_cp_times", "update_cp_times"}
             /\ SlotOf(cp_times', sample) = kern_cp_times'
             /\ \A i \in 0 .. (samples - 1) :
                   i # sample => SlotOf(cp_times', i) = SlotOf(cp_times, i)
             /\ sample' = (sample + 1) % samples]_vars
    /\ [][sample' # sample =>
             /\ pc \in {"reset_cp_times", "update_cp_times"}
             /\ SlotOf(cp_times', sample) = kern_cp_times']_vars
    /\ [](LoadsOfTick =>
             \E k0 \in RingStarts, j \in 1 .. MaxTaken :
                 /\ Taken(k0, j)
                 /\ j >= samples
                 /\ SlotOf(cp_times, (sample + samples - 1) % samples) = History(k0, j)
                 /\ SlotOf(cp_times, sample) = History(k0, j - (samples - 1))
                 /\ \A c \in Cores :
                       raw_load[c] = CoreLoad(History(k0, j)[c],
                                              History(k0, j - (samples - 1))[c]))

\* C27, witness: with three samples the second main loop iteration wrote
\* slot 0 for the second time and compared it with slot 1.
C27_Witness ==
    /\ samples = 3
    /\ ticks = 2
    /\ pc = "while"
    /\ sample = 1
    /\ Taken(PerCore(<<CountersZero, CountersZero>>), 4)
    /\ SlotOf(cp_times, 1) = History(PerCore(<<CountersZero, CountersZero>>), 2)

\* C28: reset_cp_times() takes samples - 1 samples before run_daemon() is
\* called, and neither reads, decides nor writes a frequency; so from the
\* first main loop iteration on the slot the new sample is compared with
\* holds counters the kernel has given, not the zeros of the new buffer.
C28_PrimedWindow ==
    /\ [](pc = "Pidfile" =>
             /\ \E k0 \in RingStarts : Taken(k0, samples - 1)
             /\ sample = (samples - 1) % samples)
    /\ [][pc = "reset_cp_times" =>
             /\ dev_cpu_freq' = dev_cpu_freq
             /\ decided' = decided /\ decided = << >>
             /\ freq_reads' = freq_reads /\ freq_reads = NoAccess
             /\ freq_writes' = freq_writes /\ freq_writes = NoAccess]_vars
    /\ [](LoadsOfTick =>
             \E k0 \in RingStarts, j \in 1 .. MaxTaken :
                 /\ Taken(k0, j)
                 /\ j - (samples - 1) >= 1
                 /\ SlotOf(cp_times, sample) = History(k0, j - (samples - 1)))

\* C28, witness: the first main loop iteration with three samples compares
\* its sample, the third, with the first one reset_cp_times() took.
C28_Witness ==
    /\ samples = 3
    /\ ticks = 1
    /\ pc = "acline"
    /\ Taken(PerCore(<<CountersWrap, CountersIdleWrap>>), 3)
    /\ SlotOf(cp_times, sample) = History(PerCore(<<CountersWrap, CountersIdleWrap>>), 1)
    /\ SlotOf(cp_times, sample) # [c \in Cores |-> CountersZero]


\* the frequencies the limits of the decision d are tried with
ClampWants(d) == {0, d.want, d.min, d.min + 1, d.max, d.max + 1, FREQ_DEFAULT_MAX}

\* C29: the new frequency of a decision is min(max(want, lo), hi); applying
\* the limits to a limited frequency gives the same frequency; with lo > hi
\* every wanted frequency gives hi.
C29_ClampIdempotent ==
    \A c \in DOMAIN decided :
        LET d == decided[c] IN
        /\ d.new = Min(Max(d.want, d.min), d.max)
        /\ NewFreq(cores[c], d.st, d.new) = d.new
        /\ \A want \in ClampWants(d) :
              LET new == NewFreq(cores[c], d.st, want) IN
              /\ new = Min(Max(want, d.min), d.max)
              /\ NewFreq(cores[c], d.st, new) = new
              /\ d.min > d.max => new = d.max

\* C29, witness: a controller whose lower limit is above its upper limit
\* wanted less than the upper limit and got the upper limit, and another
\* wanted a frequency within its limits and got it.
C29_Witness ==
    \E c, e \in DOMAIN decided :
        /\ decided[c].min > decided[c].max
        /\ decided[c].want < decided[c].max
        /\ decided[c].new = decided[c].max
        /\ decided[e].min < decided[e].want
        /\ decided[e].want < decided[e].max
        /\ decided[e].new = decided[e].want


\* floor(old * load / target), computed from the quotient and the remainder
\* of old and target
ExactWant(old, load, target) ==
    (old \div target) * load + ((old % target) * load) \div target

\* floor(old * load / 2^16)
ProductHigh(old, load) ==
    (old \div 65536) * load + ((old % 65536) * load) \div 65536

\* C30: a decision in adaptive mode whose old frequency passed the
\* assertion has old < 2^22; with a load in [0, 1024] the product
\* old * load is below 2^32, and the wanted frequency is
\* floor(old * load / target_load).
C30_ProductFits ==
    \A c \in DOMAIN decided :
        LET d == decided[c] IN
        (d.st.target_load # 0 /\ d.asserted /\ d.load >= 0 /\ d.load <= 1024) =>
            /\ d.old < 4194304
            /\ ProductHigh(d.old, d.load) < 65536
            /\ d.want = ExactWant(d.old, d.load, d.st.target_load)

\* C30, witness: the greatest frequency that passes the assertion under
\* full load, with a product above 2^31, gave the exact quotient.
C30_Witness ==
    \E c \in DOMAIN decided :
        /\ decided[c].st.target_load = 4
        /\ decided[c].asserted
        /\ decided[c].old = 4194303
        /\ decided[c].load = 1024
        /\ ProductHigh(decided[c].old, decided[c].load) >= 32768
        /\ decided[c].want = 1073741568


\* the frequencies of the entries of a freq_levels string of entries of
\* three characters with one character between them
RECURSIVE FreqsOf(_)
FreqsOf(str) ==
    IF Len(str) < 3 THEN << >>
    ELSE <<str[1]>> \o (IF Len(str) > 4 THEN FreqsOf(SubSeq(str, 5, Len(str))) ELSE << >>)

\* the string is a list of entries "freq/value" with a space between them
WellFormed(str) ==
    /\ str # << >>
    /\ \A i \in DOMAIN FreqsOf(str) : FreqsOf(str)[i] >= 0
    /\ str = LevelsString(FreqsOf(str))

\* the least and the greatest element of a sequence of numbers
SeqMin(seq) == CHOOSE x \in {seq[i] : i \in DOMAIN seq} : \A i \in DOMAIN seq : x <= seq[i]
SeqMax(seq) == CHOOSE x \in {seq[i] : i \in DOMAIN seq} : \A i \in DOMAIN seq : x >= seq[i]

\* C31, as claimed: after init() a controller whose freq_levels string is a
\* well-formed list has the least frequency of the list as min and the
\* greatest as max, in whatever order the list is; a core that is not a
\* controller has the default bounds, whatever the kernel has for it.
C31_LevelsMinMax ==
    InitOver =>
        \A c \in DOMAIN cores :
            LET levels == kern_mib.freq_levels[c] IN
            /\ (cores[c].controller = c /\ levels.present /\ WellFormed(levels.str)) =>
                  /\ cores[c].min = SeqMin(FreqsOf(levels.str))
                  /\ cores[c].max = SeqMax(FreqsOf(levels.str))
            /\ cores[c].controller # c =>
                  /\ cores[c].min = FREQ_DEFAULT_MIN
                  /\ cores[c].max = FREQ_DEFAULT_MAX


\* the main loop was left from its condition and nothing is being thrown
Graceful == signal # 0 /\ exc = "none" /\ pc \in {"~FreqGuard", "~Pidfile", "return"}

\* C32: when the main loop is left because of a signal, the restore has not
\* begun and the pidfile is held; the pidfile is only removed after
\* ~FreqGuard() has attempted to write the maximum of every controller; the
\* process only ends with exit code 0 after the pidfile was removed; and
\* the main loop left because of a signal leads to exit code 0.
C32_ShutdownOrder ==
    /\ [][(pc = "while" /\ pc' \notin LoopPcs) =>
             /\ signal # 0
             /\ pc' = "~FreqGuard"
             /\ fguard' = "alive"
             /\ pidfile' = "written"
             /\ restore_log' = << >>
             /\ exitcode' = "running"]_vars
    /\ [][(pidfile' = "removed" /\ pidfile # "removed" /\ exc = "none") =>
             /\ pc = "~Pidfile"
             /\ fguard = "destroyed"
             /\ RestoreAttempted
             /\ exitcode = "running"]_vars
    /\ [](pidfile = "removed" /\ fguard # "none" => fguard = "destroyed" /\ RestoreAttempted)
    /\ [][exitcode' = "OK" /\ exitcode # "OK" =>
             /\ pc = "return"
             /\ signal # 0
             /\ fguard = "destroyed"
             /\ RestoreAttempted
             /\ pidfile = "removed"]_vars
    /\ [](Graceful => exitcode = "running")
    /\ ((pc = "~FreqGuard" /\ exc = "none") ~> (exitcode = "OK" /\ pc = "exit"))

\* C32, witness: after a signal in the second main loop iteration the
\* process has ended with exit code 0; the restore of the first of two
\* controllers was refused, the second was written, the pidfile is removed.
C32_Witness ==
    /\ pc = "exit"
    /\ exitcode = "OK"
    /\ ticks = 2
    /\ signal # 0
    /\ fguard = "destroyed"
    /\ pidfile = "removed"
    /\ Len(restore_log) = 2
    /\ ~restore_log[1].ok
    /\ restore_log[2].ok


\* this process holds the pidfile
HoldsPidfile == pidfile \in {"open", "written"} /\ kern_mib.pidlock = "self"

\* this process has not written a frequency
NothingWritten ==
    /\ \A c \in DOMAIN freq_writes : freq_writes[c] = 0
    /\ restore_log = << >>
    /\ decided = << >>

\* C33: a frequency of the kernel only changes by the instance that holds
\* the pidfile; this process writes in FreqGuard(), update_freq() and
\* ~FreqGuard() only, holding the pidfile; until run_daemon() is called it
\* has written nothing and does not hold the pidfile; and it only ends with
\* ECONFLICT because the other instance held the pidfile, having written
\* nothing.
C33_WritesUnderPidfile ==
    /\ [][dev_cpu_freq' # dev_cpu_freq =>
             \/ kern_mib.pidlock = "other" /\ freq_writes' = freq_writes
                                           /\ restore_log' = restore_log
             \/ HoldsPidfile /\ pc \in {"FreqGuard", "update_freq", "~FreqGuard"}]_vars
    /\ [][((\E c \in DOMAIN freq_writes : freq_writes'[c] > freq_writes[c])
           \/ Len(restore_log') > Len(restore_log)) =>
             HoldsPidfile /\ pc \in {"FreqGuard", "update_freq", "~FreqGuard"}]_vars
    /\ [](pc \in {"read_args", "init", "reset_cp_times", "Pidfile"} =>
             NothingWritten /\ pidfile = "none" /\ kern_mib.pidlock # "self")
    /\ [][(pc \in {"read_args", "init", "reset_cp_times"} /\ kern_mib'.pidlock = kern_mib.pidlock
           /\ kern_mib.pidlock # "other") =>
             dev_cpu_freq' = dev_cpu_freq /\ kern_mib' = kern_mib]_vars
    /\ [][(exc' = "pid_t" /\ exc # "pid_t") =>
             kern_mib.pidlock = "other" /\ pc = "Pidfile"]_vars
    /\ [](exc = "pid_t" => (NothingWritten /\ pidfile = "none" /\ fguard = "none"))
    /\ [](exitcode = "ECONFLICT" => (exc = "pid_t" /\ NothingWritten))
    /\ [](kern_mib.pidlock = "other" => pidfile \notin {"open", "written"})

\* C33, witness: this process has ended with ECONFLICT without a write
\* while the other instance, which took the pidfile after this process was
\* started, has changed the frequency.
C33_Witness ==
    /\ pc = "exit"
    /\ exitcode = "ECONFLICT"
    /\ NothingWritten
    /\ kern_mib.pidlock = "other"
    /\ dev_cpu_freq[0] = 2400
    /\ cp_times # << >>

\* C33, the other way round: this process holds the pidfile and has written
\* a frequency in a main loop iteration, after the other instance gave the
\* pidfile up.
C33_WitnessHolder ==
    /\ HoldsPidfile
    /\ pc = "while"
    /\ ticks >= 1
    /\ \E c \in DOMAIN freq_writes : freq_writes[c] = 1


\* the cores whose frequency controller c sets
GroupOf(c) == {f \in Cores : cores[f].controller = c}

\* the highest of the loads update_cp_times() computed for the cores of S
HighestLoad(S) == CHOOSE m \in {raw_load[f] : f \in S} : \A f \in S : raw_load[f] <= m

\* the sample of core c that is n intervals of full load after boot counters k
BusySample(k, n) == [s \in States |-> CpAdd(k[s], n * ProfileBusy[s])]

\* C34: after update_load_times() of a main loop iteration the load of a
\* controller is the highest of the loads of the cores of its group, every
\* one of them computed from the sample this iteration took and the oldest
\* sample of the ring buffer; a follower's load is its own; and the
\* controller's frequency is decided with that highest load.
C34_GroupMaxOfTick ==
    LoadsCoalesced =>
        /\ \A f \in Cores :
              raw_load[f] = CoreLoad(cp_times[NewestSlot(f)], cp_times[OldestSlot(f)])
        /\ \A c \in Controllers : cores[c].load = HighestLoad(GroupOf(c))
        /\ \A f \in Cores \ Controllers : cores[f].load = raw_load[f]
        /\ \A c \in DOMAIN decided : decided[c].load = HighestLoad(GroupOf(c))

\* C34, witness: the second main loop iteration gave a controller and its
\* followers the load 0, after a follower had been fully loaded in every
\* interval up to the sample of the first iteration, which then gave the
\* controller the load 1024.
C34_Witness ==
    /\ LoadsCoalesced
    /\ ticks = 2
    /\ samples = 2
    /\ \E c \in Controllers : \E f \in GroupOf(c) \ {c} :
          /\ cp_times[OldestSlot(f)] = BusySample(CountersWrap, 2)
          /\ cp_times[OldestSlot(c)] = [s \in States |-> 2 * ProfileIdle[s]]
          /\ raw_load[f] = 0
          /\ cores[c].load = 0
          /\ c \in DOMAIN decided
          /\ decided[c].load = 0


\* hi and lo of controller c under the policy of this main loop iteration
RampHi(c) == Min(cores[c].max, acstate.freq_max)
RampLo(c) == Max(cores[c].min, acstate.freq_min)

\* update_freq() is about to decide for controller c, which is fully loaded,
\* in an adaptive mode with a load target of at most 512 and lo <= hi
RampDecides(c) ==
    /\ pc = "update_freq"
    /\ i_loop = c
    /\ c < ncpu
    /\ cores[c].controller = c
    /\ cores[c].load = 1024
    /\ acstate.target_load # 0
    /\ acstate.target_load <= 512
    /\ RampLo(c) <= RampHi(c)
    /\ dev_cpu_freq[c] >= 1

\* the decision for controller c wrote a higher frequency, of at most hi
RampRaises(c) ==
    /\ dev_cpu_freq'[c] > dev_cpu_freq[c]
    /\ dev_cpu_freq'[c] <= RampHi(c)
    /\ freq_writes'[c] = freq_writes[c] + 1

\* the decision for controller c wrote nothing
RampWritesNothing(c) ==
    /\ dev_cpu_freq' = dev_cpu_freq
    /\ freq_writes' = freq_writes

\* C35: under full load in the adaptive modes ADP and HADP, whose load
\* targets are at most 512, a main loop iteration raises the frequency of a
\* controller that is at least 1 and below hi, to at most hi, and writes
\* nothing when the frequency is hi; when the main thread keeps running, a
\* frequency of at least 1 and at most hi gets to be hi.
C35_RampUp ==
    /\ ADP <= 512
    /\ HADP <= 512
    /\ [](pc \in TickPcs => \A l \in DOMAIN acstates : acstates[l].target_load \in {ADP, HADP})
    /\ [][\A c \in DOMAIN dev_cpu_freq :
             (RampDecides(c) /\ dev_cpu_freq[c] <= RampHi(c)) =>
                 IF dev_cpu_freq[c] < RampHi(c) THEN RampRaises(c)
                 ELSE RampWritesNothing(c)]_vars
    /\ \A c \in 0 .. 1 :
          (c \in DOMAIN cores /\ RampDecides(c) /\ dev_cpu_freq[c] <= RampHi(c))
              ~> (c \in DOMAIN cores /\ dev_cpu_freq[c] = RampHi(c))

\* C35 as it is stated, for every frequency of at least 1: a main loop
\* iteration raises a frequency that is not hi.
C35_RampUpFromAnyFrequency ==
    [][\A c \in DOMAIN dev_cpu_freq :
          RampDecides(c) =>
              IF dev_cpu_freq[c] # RampHi(c) THEN RampRaises(c)
              ELSE RampWritesNothing(c)]_vars

\* C35, witness: after two main loop iterations the first controller, which
\* was given 1600 MHz by the first, has been raised to its hi of 2400 MHz by
\* the second, and the second controller, which was at its hi of 4 MHz, has
\* not been written to.
C35_Witness ==
    /\ pc = "while"
    /\ ticks = 2
    /\ DOMAIN decided = {0, 1}
    /\ decided[0].load = 1024
    /\ decided[0].st.target_load = ADP
    /\ decided[0].min = 800
    /\ decided[0].max = 2400
    /\ decided[0].old = 1600
    /\ dev_cpu_freq[0] = 2400
    /\ freq_writes[0] = 1
    /\ decided[1].max = 4
    /\ decided[1].old = 4
    /\ dev_cpu_freq[1] = 4
    /\ freq_writes[1] = 0

\* C35, a frequency above hi: update_freq() is about to decide for a fully
\* loaded controller whose frequency is above hi.
C35_AboveHi ==
    \E c \in DOMAIN dev_cpu_freq : RampDecides(c) /\ dev_cpu_freq[c] > RampHi(c)


====
